---- MODULE Spec2Model ----
(***************************************************************************)
(* aspmc: the evaluation dispatcher of the extended CNF (compile/cnf.py)    *)
(* together with the process-wide temp-file registry and its signal        *)
(* handler (signal_handling.py).                                           *)
(*                                                                         *)
(* One Python process evaluates CNFs one after the other.  Every statement *)
(* that touches the disk, the registry `tempfiles`, a child process or the *)
(* control flow is one step; a signal may be delivered between any two     *)
(* steps.  External backends are the environment: they exit with any code  *)
(* and print any output from a small alphabet.                             *)
(*                                                                         *)
(* Spec and FairSpec are that process.  UnitSpec calls the constructor and *)
(* the methods of CNF one by one on small CNFs and texts, and TreeSpec the *)
(* constructor and the methods of TreeDecomposition                        *)
(* (graph/treedecomposition.py) on small trees.                            *)
(***************************************************************************)
EXTENDS Integers, Sequences, FiniteSets, TLC

(***************************************************************************)
(* Bounds of the model.                                                    *)
(***************************************************************************)
\* evaluations (calls of CNF.evaluate / CNF.get_defined) made by one process
MaxEvals == 2
\* lines a MaxSAT backend prints before it exits
MaxLines == 2
\* variables of a CNF whose methods are called on their own
MaxVars == 2
\* queries, the length of the weight vector of a literal
MaxQueries == 2
\* largest finite weight, and largest absolute value of an integer in a text
MaxNumber == 4
\* bits of the limit of `top` in write_maxsat_cnf: the source compares with
\* 2**63, the model with 2**TopBits, on weights that are as much smaller
TopBits == 3
\* bags (nodes) of a tree decomposition
MaxBags == 3
\* the vertices 1..MaxRemoved are candidates for TreeDecomposition.remove
MaxRemoved == 2

(***************************************************************************)
(* Text.  A line is the sequence of its characters, so that the slices     *)
(* line[2:], line[2:-1] and line[0] of the read loop are what they are in  *)
(* Python.                                                                 *)
(***************************************************************************)
NL == "\n"

OPTIMUM_FOUND == <<"O","P","T","I","M","U","M"," ","F","O","U","N","D">>

UNKNOWN == <<"U","N","K","N","O","W","N">>

SATISFIABLE == <<"S","A","T","I","S","F","I","A","B","L","E">>

UNSATISFIABLE == <<"U","N">> \o SATISFIABLE

\* "s <status>" without and with the line terminator
StatusLine(status, nl) == <<"s", " ">> \o status \o (IF nl THEN <<NL>> ELSE <<>>)

\* "v <bitstring>\n"
ModelLine(bits) == <<"v", " ">> \o bits \o <<NL>>

\* Python's s[a:] for a sequence (0-based start)
SliceFrom(s, a) == SubSeq(s, a + 1, Len(s))

\* Python's s[a:-1]
SliceFromButLast(s, a) == SubSeq(s, a + 1, Len(s) - 1)

\* Python's s.startswith(c) for a one-character prefix
StartsWith(s, c) == Len(s) > 0 /\ s[1] = c

(***************************************************************************)
(* Semirings.                                                              *)
(***************************************************************************)
INF == 1000

NEGINF == -1000

\* semiring.is_idempotent(): the tropical semirings answer True
is_idempotent(s) ==
    s \in {"maxplus", "minplus", "maxtimes", "maxplusdecisions", "maxtimesdecisions"}

\* the semiring lists a CNF is evaluated with
SemiringInputs ==
    { <<>>,
      <<"probabilistic">>, <<"grad">>,
      <<"maxplus">>, <<"minplus">>, <<"maxtimes">>, <<"maxplusdecisions">>,
      <<"maxtimesdecisions", "probabilistic">>,
      <<"probabilistic", "probabilistic", "probabilistic">> }

\* one() and zero() of a semiring, as the value stored in a weight
one(s) == IF s \in {"maxtimes", "maxtimesdecisions", "probabilistic"} THEN 1 ELSE 0

zero(s) ==
    IF s = "minplus" THEN INF
    ELSE IF s \in {"maxplus", "maxplusdecisions"} THEN NEGINF
    ELSE 0

(***************************************************************************)
(* The CNF: nr_vars, clauses, weights.                                     *)
(***************************************************************************)
Abs(x) == IF x < 0 THEN -x ELSE x

\* only a literal next to its negation makes the clause trivial
IsTrivialClause_of_neighbours(c) ==
    \E i \in 1..(Len(c) - 1) : c[i] = -c[i + 1]

\* a clause is trivial when it holds a literal and its negation
IsTrivialClause(c) ==
    \E i \in 1..Len(c) : \E j \in (i + 1)..Len(c) : c[i] = -c[j]

\* CNF.remove_trivial_clauses
remove_trivial_clauses(cls) == SelectSeq(cls, LAMBDA c : ~IsTrivialClause(c))

\* the answer of the SAT oracle minisat on (nr_vars, clauses)
Satisfiable(n, cls) ==
    \E a \in [1..n -> BOOLEAN] :
        \A i \in 1..Len(cls) :
            \E j \in 1..Len(cls[i]) :
                IF cls[i][j] > 0 THEN a[cls[i][j]] ELSE ~a[-cls[i][j]]

\* the CNFs handed to evaluate: no clause, only a trivial clause,
\* unsatisfiable, satisfiable
CNFInputs ==
    { [nr_vars |-> 1, clauses |-> <<>>],
      [nr_vars |-> 1, clauses |-> << <<-1, 1>> >>],
      [nr_vars |-> 1, clauses |-> << <<-1>>, <<1>> >>],
      [nr_vars |-> 1, clauses |-> << <<1>> >>] }

\* the weights of the literals 1 and -1 under semiring list sems: equal
\* weights, two different finite weights, and a literal of weight zero()
WeightInputs(sems) ==
    IF Len(sems) = 1 /\ sems[1] \in {"maxplus", "minplus"}
    THEN { (1 :> one(sems[1]) @@ -1 :> one(sems[1])),
           (1 :> 1 @@ -1 :> 0),
           (1 :> zero(sems[1]) @@ -1 :> 0) }
    ELSE IF Len(sems) = 1 /\ sems[1] = "maxtimes"
    THEN { (1 :> 1 @@ -1 :> 1), (1 :> 0 @@ -1 :> 1) }
    ELSE { (1 :> 1 @@ -1 :> 1) }


(***************************************************************************)
(* solve_maxsat: the weights on the additive max-plus scale.               *)
(***************************************************************************)
\* math.log on the weights the model uses (log 1 = 0)
Log(w) == CASE w = 1 -> 0

\* real_weights after the conversion into max-plus weights
to_maxplus(s, w) ==
    IF s = "maxtimes" THEN (IF w > 0 THEN Log(w) ELSE NEGINF)
    ELSE IF s = "minplus" THEN (IF w # INF THEN -w ELSE NEGINF)
    ELSE w

\* the literals whose weight differs from the weight of their negation
relevant_literals(s, ws) ==
    { l \in DOMAIN ws : to_maxplus(s, ws[l]) # to_maxplus(s, ws[-l]) }

\* the literals of weight -inf: hard unit clauses
negated_units(s, ws) ==
    { l \in relevant_literals(s, ws) : to_maxplus(s, ws[l]) = NEGINF }

\* the literals that keep a soft weight
soft_literals(s, ws) ==
    { l \in relevant_literals(s, ws) :
        to_maxplus(s, ws[l]) # NEGINF /\ Abs(to_maxplus(s, ws[l])) > 0 }

(***************************************************************************)
(* Python strings of the extended CNF format.  A string is the sequence of *)
(* its atoms: a blank, a separator character, or a run of characters that  *)
(* no function of the module looks into.  A text is the sequence of its    *)
(* lines, as string.split("\n") and the iteration over a file give them.   *)
(***************************************************************************)
BLANK == " "

\* the next token of str.split(): the atoms up to the first blank
RECURSIVE Token(_)
Token(s) ==
    IF s = <<>> \/ Head(s) = BLANK THEN <<>> ELSE <<Head(s)>> \o Token(Tail(s))

\* str.split(): the maximal runs of atoms that are not blank
RECURSIVE split(_)
split(s) ==
    IF s = <<>> THEN <<>>
    ELSE IF Head(s) = BLANK THEN split(Tail(s))
    ELSE <<Token(s)>> \o split(SubSeq(s, Len(Token(s)) + 1, Len(s)))

\* the atoms of s up to the first separator sep
RECURSIVE Field(_, _)
Field(s, sep) ==
    IF s = <<>> \/ Head(s) = sep THEN <<>> ELSE <<Head(s)>> \o Field(Tail(s), sep)

\* str.split(sep): the fields between the separators, empty ones included
RECURSIVE split_on(_, _)
split_on(s, sep) ==
    IF Len(Field(s, sep)) = Len(s) THEN <<s>>
    ELSE <<Field(s, sep)>> \o split_on(SubSeq(s, Len(Field(s, sep)) + 2, Len(s)), sep)

\* sep.join(strings)
RECURSIVE join(_, _)
join(sep, strings) ==
    IF strings = <<>> THEN <<>>
    ELSE IF Len(strings) = 1 THEN strings[1]
    ELSE strings[1] \o <<sep>> \o join(sep, Tail(strings))

\* line[a:-1] and value[1:-1]
SliceButLast(s, a) == SubSeq(s, a + 1, Len(s) - 1)

\* the integers and floats a text of the model writes
Numbers == (-MaxNumber)..MaxNumber

\* str(n) of an int, and str(x) of a float with an integral or infinite value
str_int(n) == <<ToString(n)>>

str_float(x) ==
    IF x = INF THEN <<"inf">>
    ELSE IF x = NEGINF THEN <<"-inf">>
    ELSE <<ToString(x) \o ".0">>

\* int(s) and float(s) succeed on these strings and raise ValueError on others
IsInt(s) == \E n \in Numbers : s = str_int(n)

int(s) == CHOOSE n \in Numbers : s = str_int(n)

IsFloat(s) ==
    \E x \in Numbers \cup {INF, NEGINF} :
        s = str_float(x) \/ (x \in Numbers /\ s = str_int(x))

float(s) ==
    CHOOSE x \in Numbers \cup {INF, NEGINF} :
        s = str_float(x) \/ (x \in Numbers /\ s = str_int(x))

(***************************************************************************)
(* The semiring modules of aspmc.semirings that the model loads.  A value  *)
(* is the pair of its number and its set of decisions, a bit mask; the     *)
(* set is empty (0) in minplus and maxtimes, whose values carry none.      *)
(***************************************************************************)
SemiringModules == {"minplus", "maxtimes", "maxplusdecisions"}

\* module.__name__
module_name(s) == "aspmc.semirings." \o s

\* importlib.import_module(mod) finds these modules and raises on other names
IsModule(mod) == \E s \in SemiringModules : mod = <<module_name(s)>>

import_module(mod) == CHOOSE s \in SemiringModules : mod = <<module_name(s)>>

HasDecisions(s) == s = "maxplusdecisions"

\* a | b on the bit masks 0..3
BitOr(a, b) ==
    (IF a % 2 = 1 \/ b % 2 = 1 THEN 1 ELSE 0) + (IF a \div 2 = 1 \/ b \div 2 = 1 THEN 2 ELSE 0)

\* x + y and x * y on floats, with inf and -inf
FloatSum(x, y) ==
    IF x = INF \/ y = INF THEN INF
    ELSE IF x = NEGINF \/ y = NEGINF THEN NEGINF
    ELSE x + y

FloatProduct(x, y) ==
    IF x = 0 \/ y = 0 THEN 0
    ELSE IF x \in {INF, NEGINF} \/ y \in {INF, NEGINF}
    THEN (IF (x < 0) = (y < 0) THEN INF ELSE NEGINF)
    ELSE x * y

\* __add__ of the value classes (the counting mode without a semiring, "",
\* adds integers)
add(s, a, b) ==
    IF s = "minplus" THEN (IF a[1] <= b[1] THEN a ELSE b)
    ELSE IF s = "maxtimes" THEN (IF a[1] >= b[1] THEN a ELSE b)
    ELSE IF s = "maxplusdecisions" THEN (IF a[1] >= b[1] THEN a ELSE b)
    ELSE a + b

\* __mul__ of the value classes
mul(s, a, b) ==
    IF s = "minplus" THEN <<FloatSum(a[1], b[1]), 0>>
    ELSE IF s = "maxtimes" THEN <<FloatProduct(a[1], b[1]), 0>>
    ELSE IF s = "maxplusdecisions" THEN <<FloatSum(a[1], b[1]), BitOr(a[2], b[2])>>
    ELSE a * b

\* module.one() and module.zero() as values
semiring_one(s) ==
    IF s = "" THEN 1 ELSE <<one(s), 0>>

semiring_zero(s) ==
    IF s = "" THEN 0 ELSE <<zero(s), 0>>

\* module.from_value(x)
from_value(s, x) == <<x, 0>>

\* value.value
value_of(s, a) == a[1]

\* module.to_string(value)
to_string(s, a) ==
    IF HasDecisions(s)
    THEN <<"(">> \o str_float(a[1]) \o <<",">> \o str_int(a[2]) \o <<")">>
    ELSE str_float(a[1])

\* module.parse(value) raises ValueError or IndexError on other strings
CanParse(s, value) ==
    IF HasDecisions(s)
    THEN LET v == split_on(SliceButLast(value, 1), ",")
         IN  Len(v) >= 2 /\ IsFloat(v[1]) /\ IsInt(v[2])
    ELSE IsFloat(value)

parse(s, value) ==
    IF HasDecisions(s)
    THEN LET v == split_on(SliceButLast(value, 1), ",")
         IN  <<float(v[1]), int(v[2])>>
    ELSE <<float(value), 0>>

(***************************************************************************)
(* The CNF object: CNF.__init__ on a text, and the writers of a text.      *)
(* The dict self.weights is the sequence `keys` of its keys in insertion   *)
(* order and the function `weights` on them; a weight is the vector of its *)
(* values, one per query.                                                  *)
(***************************************************************************)
\* self.transform is None, or a string
NoTransform == [none |-> TRUE, str |-> <<>>]

Transform(s) == [none |-> FALSE, str |-> s]

\* the fields as CNF.__init__ sets them before it reads
EmptyCNF ==
    [nr_vars |-> 0, clauses |-> <<>>, keys |-> <<>>, weights |-> <<>>,
     semirings |-> <<>>, quantified |-> <<>>, transform |-> NoTransform]

\* the same fields while the constructor runs, with the exception it raised
Reading ==
    [exc |-> "none", nr_vars |-> 0, clauses |-> <<>>, keys |-> <<>>,
     weights |-> <<>>, semirings |-> <<>>, quantified |-> <<>>,
     transform |-> NoTransform]

Range(f) == {f[i] : i \in DOMAIN f}

\* d[k] = v on a dict
SetItem(keys, d, k, v) ==
    [keys |-> IF k \in Range(keys) THEN keys ELSE Append(keys, k),
     d |-> [j \in Range(keys) \cup {k} |-> IF j = k THEN v ELSE d[j]]]

\* line[a:-1] of a list of tokens
Middle(line, a) == SubSeq(line, a + 1, Len(line) - 1)

AllInt(tokens) == \A i \in 1..Len(tokens) : IsInt(tokens[i])

Ints(tokens) == [i \in 1..Len(tokens) |-> int(tokens[i])]

Failed(o, exc) == [o EXCEPT !.exc = exc]

\* one turn of the loop over the lines: a property line, the problem line,
\* or a clause; a property line that does not end with 0 is only logged
read_line(o, raw) ==
    LET line == split(raw) IN
    IF o.exc # "none" \/ Len(line) = 0 THEN o
    ELSE IF line[1] = <<"c">>
    THEN IF Len(line) > 2 /\ line[2] = <<"p">>
         THEN IF line[3] = <<"weight">>
              THEN IF Len(line) < 4 THEN Failed(o, "IndexError")
                   ELSE IF ~IsInt(line[4]) THEN Failed(o, "ValueError")
                   ELSE LET w == SetItem(o.keys, o.weights, int(line[4]),
                                         join(BLANK, Middle(line, 4)))
                        IN  [o EXCEPT !.keys = w.keys, !.weights = w.d]
              ELSE IF line[3] = <<"semirings">>
              THEN IF \E i \in 1..Len(Middle(line, 3)) : ~IsModule(Middle(line, 3)[i])
                   THEN Failed(o, "ModuleNotFoundError")
                   ELSE [o EXCEPT !.semirings =
                           [i \in 1..Len(Middle(line, 3)) |-> import_module(Middle(line, 3)[i])]]
              ELSE IF line[3] = <<"transform">>
              THEN [o EXCEPT !.transform = Transform(join(BLANK, Middle(line, 3)))]
              ELSE IF line[3] = <<"quantify">>
              THEN IF ~AllInt(Middle(line, 3)) THEN Failed(o, "ValueError")
                   ELSE [o EXCEPT !.quantified = Append(@, Ints(Middle(line, 3)))]
              ELSE o
         ELSE o
    ELSE IF line[1] = <<"p">>
    THEN IF Len(line) < 3 THEN Failed(o, "IndexError")
         ELSE IF ~IsInt(line[3]) THEN Failed(o, "ValueError")
         ELSE [o EXCEPT !.nr_vars = int(line[3])]
    ELSE IF ~AllInt(line) THEN Failed(o, "ValueError")
    ELSE [o EXCEPT !.clauses = Append(@, Middle(Ints(line), 0))]

\* for line in string.split("\n")
RECURSIVE read_lines(_, _)
read_lines(o, string) ==
    IF string = <<>> THEN o ELSE read_lines(read_line(o, Head(string)), Tail(string))

\* the semiring a weight of literal idx is parsed and written with
level_of(o, idx) == IF Abs(idx) \in Range(o.quantified[1]) THEN 1 ELSE 2

\* the loop that parses the weights: quantified[0] and semirings[level] must
\* exist, and every value between the ";" must parse
weights_parse_exc(o) ==
    IF o.keys = <<>> THEN "none"
    ELSE IF Len(o.quantified) = 0 THEN "IndexError"
    ELSE IF \E i \in 1..Len(o.keys) : level_of(o, o.keys[i]) > Len(o.semirings)
    THEN "IndexError"
    ELSE IF \E i \in 1..Len(o.keys) :
              \E v \in Range(split_on(o.weights[o.keys[i]], ";")) :
                  ~CanParse(o.semirings[level_of(o, o.keys[i])], v)
    THEN "ValueError"
    ELSE "none"

weights_parsed(o) ==
    [idx \in Range(o.keys) |->
        LET vs == split_on(o.weights[idx], ";")
        IN  [q \in 1..Len(vs) |-> parse(o.semirings[level_of(o, idx)], vs[q])]]

\* CNF(string = ...) without the check that two semirings have a transform
CNF_init_without_transform_check(string) ==
    LET o == read_lines(Reading, string) IN
    IF o.exc # "none" THEN o
    ELSE IF Len(o.quantified) # Len(o.semirings) THEN Failed(o, "exit")
    ELSE IF Len(o.semirings) > 2 THEN Failed(o, "exit")
    ELSE IF weights_parse_exc(o) # "none" THEN Failed(o, weights_parse_exc(o))
    ELSE [o EXCEPT !.weights = weights_parsed(o)]

\* CNF(string = ...): the loop over the lines, the three checks that end
\* in exit(-1), and the parse of the weights
CNF_init(string) ==
    LET o == read_lines(Reading, string) IN
    IF o.exc # "none" THEN o
    ELSE IF Len(o.quantified) # Len(o.semirings) THEN Failed(o, "exit")
    ELSE IF Len(o.semirings) > 2 THEN Failed(o, "exit")
    ELSE IF Len(o.semirings) = 2 /\ o.transform.none THEN Failed(o, "exit")
    ELSE IF weights_parse_exc(o) # "none" THEN Failed(o, weights_parse_exc(o))
    ELSE [o EXCEPT !.weights = weights_parsed(o)]

\* the object the constructor leaves, without the mark of the model
object(o) ==
    [nr_vars |-> o.nr_vars, clauses |-> o.clauses, keys |-> o.keys,
     weights |-> o.weights, semirings |-> o.semirings,
     quantified |-> o.quantified, transform |-> o.transform]

\* f"{' '.join([str(l) for l in c])} 0" and the like
ints_line(head, ns) ==
    head \o join(BLANK, [i \in 1..Len(ns) |-> str_int(ns[i])]) \o <<BLANK, "0">>

\* ';'.join([ semiring.to_string(w) for w in self.weights[idx] ])
weight_string(o, idx) ==
    join(";", [q \in 1..Len(o.weights[idx]) |->
                  to_string(o.semirings[level_of(o, idx)], o.weights[idx][q])])

\* the header and the clauses
clause_lines(o) ==
    << <<"p", BLANK, "cnf", BLANK>> \o str_int(o.nr_vars) \o <<BLANK>> \o str_int(Len(o.clauses)) >>
    \o [i \in 1..Len(o.clauses) |-> ints_line(<<>>, o.clauses[i])]

\* the property lines: weights, semirings, transform, quantify
extras_lines(o) ==
    [i \in 1..Len(o.keys) |->
        <<"c", BLANK, "p", BLANK, "weight", BLANK>> \o str_int(o.keys[i]) \o <<BLANK>>
        \o weight_string(o, o.keys[i]) \o <<BLANK, "0">>]
    \o (IF Len(o.semirings) > 0
        THEN << <<"c", BLANK, "p", BLANK, "semirings", BLANK>>
                \o join(BLANK, [i \in 1..Len(o.semirings) |-> <<module_name(o.semirings[i])>>])
                \o <<BLANK, "0">> >>
        ELSE <<>>)
    \o (IF ~o.transform.none
        THEN << <<"c", BLANK, "p", BLANK, "transform", BLANK>> \o o.transform.str \o <<BLANK, "0">> >>
        ELSE <<>>)
    \o [i \in 1..Len(o.quantified) |->
        ints_line(<<"c", BLANK, "p", BLANK, "quantify", BLANK>>, o.quantified[i])]

\* the writers raise IndexError when a weight has no semiring to be written with
write_exc(o) ==
    IF o.keys = <<>> THEN "none"
    ELSE IF Len(o.quantified) = 0 THEN "IndexError"
    ELSE IF \E i \in 1..Len(o.keys) : level_of(o, o.keys[i]) > Len(o.semirings)
    THEN "IndexError"
    ELSE "none"

\* what string.split("\n") makes of the text written: every line ends with "\n"
\* CNF.to_stream
to_stream(o, extras) ==
    clause_lines(o) \o (IF extras THEN extras_lines(o) ELSE <<>>) \o << <<>> >>

\* CNF.to_file
to_file(o, extras) ==
    clause_lines(o) \o (IF extras THEN extras_lines(o) ELSE <<>>) \o << <<>> >>

\* CNF.__str__
CNF_str(o) == clause_lines(o) \o extras_lines(o) \o << <<>> >>

(***************************************************************************)
(* CNF.get_weights and the values of CNF.evaluate_trivial.                 *)
(***************************************************************************)
\* aspmc.util: the position of a literal in the flat list of weights, the
\* literal at a position, and the position of the negated literal
to_pos(l) == 2 * (Abs(l) - 1) + (IF l < 0 THEN 1 ELSE 0)

to_dimacs(i) == IF i % 2 = 0 THEN (i \div 2) + 1 ELSE -((i \div 2) + 1)

neg(p) == IF p % 2 = 0 THEN p + 1 ELSE p - 1

\* list[p] of Python: a negative index counts from the end
CanIndex(list, p) == -Len(list) <= p /\ p < Len(list)

Item(list, p) == IF p < 0 THEN list[Len(list) + p + 1] ELSE list[p + 1]

\* CNF.get_weights
get_weights(o) ==
    IF Len(o.semirings) = 0
    THEN [exc |-> "none", weights |-> [i \in 1..(o.nr_vars * 2) |-> <<1>>],
          zero |-> 0, one |-> 1]
    ELSE IF \E i \in 0..(Len(o.keys) - 1) : to_dimacs(i) \notin Range(o.keys)
    THEN [exc |-> "KeyError", weights |-> <<>>, zero |-> 0, one |-> 0]
    ELSE [exc |-> "none",
          weights |-> [i \in 1..Len(o.keys) |-> o.weights[to_dimacs(i - 1)]],
          zero |-> semiring_zero(o.semirings[1]),
          one |-> semiring_one(o.semirings[1])]

\* res[:] = value on an array of the shape of a weight
Filled(n, value) == [q \in 1..n |-> value]

\* res *= weights[p], per query: the negated literal is left out
Multiplied_without_negated_literal(s, res, flat, p) ==
    [q \in 1..Len(res) |-> mul(s, res[q], Item(flat, p)[q])]

\* res *= weights[p] + weights[neg(p)], per query
Multiplied(s, res, flat, p) ==
    [q \in 1..Len(res) |->
        mul(s, res[q], add(s, Item(flat, p)[q], Item(flat, neg(p))[q]))]

\* the loop `for i in ...: res *= weights[to_pos(i)] + weights[neg(to_pos(i))]`
RECURSIVE Product(_, _, _, _)
Product(s, res, flat, is) ==
    IF is = {} THEN res
    ELSE LET i == CHOOSE j \in is : TRUE
         IN  Product(s, Multiplied(s, res, flat, to_pos(i)), flat, is \ {i})

\* the loop raises IndexError when a position is not one of the list
CanMultiply(flat, is) ==
    \A i \in is : CanIndex(flat, to_pos(i)) /\ CanIndex(flat, neg(to_pos(i)))

\* eval(self.transform) on the transforms of the model, applied to a value
\* w of semirings[1]; blanks do not matter to eval
eval_transform(t, s, w) ==
    IF split(t.str) = <<<<"lambda">>, <<"w">>, <<":">>, <<"w.value">>>>
    THEN value_of(s, w)
    ELSE FloatSum(value_of(s, w), 1)

Raised(exc) == [exc |-> exc, none |-> FALSE, value |-> <<>>]

Value(v) == [exc |-> "none", none |-> FALSE, value |-> v]

ReturnsNone == [exc |-> "none", none |-> TRUE, value |-> <<>>]

\* what evaluate_trivial returns on the CNF with the clause list cls, which
\* remove_trivial_clauses left; is_sat is the answer of the SAT oracle
trivial_value(o, cls) ==
    LET w == get_weights(o)
        n == o.nr_vars
        first == IF Len(o.semirings) = 2 THEN Range(o.quantified[1]) ELSE {}
        second == (1..n) \ first
    IN
    IF Len(o.semirings) = 0
    THEN IF Len(cls) = 0
         THEN IF n = 0 THEN Value(<<1>>)
              ELSE Value(Product("", Filled(Len(w.weights[1]), w.one), w.weights, 0..(n - 1)))
         ELSE IF ~Satisfiable(n, cls) THEN Value(<<0>>)
         ELSE ReturnsNone
    ELSE IF Len(o.semirings) = 1
    THEN IF Len(cls) = 0
         THEN IF n = 0 THEN Value(<<semiring_one(o.semirings[1])>>)
              ELSE IF w.exc # "none" THEN Raised(w.exc)
              ELSE IF Len(w.weights) = 0 \/ ~CanMultiply(w.weights, 0..(n - 1))
              THEN Raised("IndexError")
              ELSE Value(Product(o.semirings[1], Filled(Len(w.weights[1]), w.one),
                                 w.weights, 0..(n - 1)))
         ELSE IF ~Satisfiable(n, cls)
         THEN IF w.exc # "none" THEN Raised(w.exc)
              ELSE IF Len(w.weights) = 0 THEN Raised("IndexError")
              ELSE Value(Filled(Len(w.weights[1]), w.zero))
         ELSE ReturnsNone
    ELSE IF Len(o.semirings) = 2
    THEN IF Len(cls) = 0
         THEN IF n = 0 THEN Value(<<semiring_one(o.semirings[1])>>)
              ELSE IF w.exc # "none" THEN Raised(w.exc)
              ELSE IF Len(w.weights) = 0 \/ ~CanMultiply(w.weights, 1..n)
              THEN Raised("IndexError")
              ELSE LET inner == Product(o.semirings[2],
                                        Filled(Len(w.weights[1]), semiring_one(o.semirings[2])),
                                        w.weights, second)
                       outer == [q \in 1..Len(inner) |->
                                    from_value(o.semirings[1],
                                               eval_transform(o.transform, o.semirings[2], inner[q]))]
                   IN  Value(Product(o.semirings[1], outer, w.weights, first))
         ELSE IF ~Satisfiable(n, cls)
         THEN IF 0 \in Range(o.keys)
              THEN Value(Filled(Len(o.weights[0]), semiring_zero(o.semirings[1])))
              ELSE Raised("KeyError")
         ELSE ReturnsNone
    ELSE ReturnsNone

\* CNF.remove_trivial_clauses as a method: only self.clauses is assigned
CNF_remove_trivial_clauses(o) ==
    [o EXCEPT !.clauses = remove_trivial_clauses(o.clauses)]

\* CNF.evaluate_trivial as a method: the clauses are pruned first
CNF_evaluate_trivial(o) == trivial_value(o, remove_trivial_clauses(o.clauses))

(***************************************************************************)
(* CNF.write_maxsat_cnf: the weighted partial MaxSAT instance of a CNF     *)
(* over one idempotent semiring.  real_weights is a dict: its keys in      *)
(* insertion order and its values.                                         *)
(***************************************************************************)
Has(dict, k) == k \in Range(dict.keys)

\* del dict[k]
Del(dict, k) ==
    [keys |-> SelectSeq(dict.keys, LAMBDA j : j # k),
     d |-> [j \in Range(dict.keys) \ {k} |-> dict.d[j]]]

\* dict[k] = v
Put(dict, k, v) == SetItem(dict.keys, dict.d, k, v)

\* { l : w for l, w in dict.items() if l in keep }
Restricted(dict, keep) ==
    [keys |-> SelectSeq(dict.keys, LAMBDA j : j \in keep),
     d |-> [j \in Range(dict.keys) \cap keep |-> dict.d[j]]]

\* the semirings write_maxsat_cnf converts; on any other it calls exit(-1)
maxsat_supported(s) == s \in {"maxtimes", "minplus", "maxplus"}

\* real_weights after the conversion into max-plus weights: the value of
\* the first query of every literal
real_weights(o) ==
    [keys |-> o.keys,
     d |-> [l \in Range(o.keys) |->
              to_maxplus(o.semirings[1], value_of(o.semirings[1], o.weights[l][1]))]]

\* real_weights[-l] raises KeyError when the negated literal has no weight
negation_missing(rw) == \E l \in Range(rw.keys) : -l \notin Range(rw.keys)

\* sort out variables that are irrelevant
irrelevant_removed(rw) ==
    Restricted(rw, {l \in Range(rw.keys) : rw.d[l] # rw.d[-l]})

\* negated_units left empty: no literal is forced
hard_units_left_empty(rw) == SelectSeq(rw.keys, LAMBDA l : FALSE)

\* the literals of weight -inf, in the order of the dict
hard_units(rw) == SelectSeq(rw.keys, LAMBDA l : rw.d[l] = NEGINF)

\* keep the rest
finite_weights(rw) == Restricted(rw, {l \in Range(rw.keys) : rw.d[l] # NEGINF})

\* one turn of the loop that only turns a single negative weight around and
\* leaves a variable with two weights as it is
normalise_variable_keeping_both(rw, i) ==
    IF Has(rw, i)
    THEN IF Has(rw, -i) THEN rw
         ELSE IF rw.d[i] < 0 THEN Del(Put(rw, -i, -rw.d[i]), i) ELSE rw
    ELSE IF Has(rw, -i)
         THEN IF rw.d[-i] < 0 THEN Del(Put(rw, i, -rw.d[-i]), -i) ELSE rw
         ELSE rw

\* one turn of the loop that leaves variable i one weight, which is not negative
normalise_variable(rw, i) ==
    IF Has(rw, i)
    THEN IF Has(rw, -i)
         THEN IF rw.d[i] < rw.d[-i]
              THEN Del(Put(rw, -i, rw.d[-i] - rw.d[i]), i)
              ELSE Del(Put(rw, i, rw.d[i] - rw.d[-i]), -i)
         ELSE IF rw.d[i] < 0 THEN Del(Put(rw, -i, -rw.d[i]), i) ELSE rw
    ELSE IF Has(rw, -i)
         THEN IF rw.d[-i] < 0 THEN Del(Put(rw, i, -rw.d[-i]), -i) ELSE rw
         ELSE rw

\* for i in range(1, self.nr_vars + 1)
RECURSIVE normalised(_, _, _)
normalised(rw, i, n) ==
    IF i > n THEN rw ELSE normalised(normalise_variable(rw, i), i + 1, n)

\* math.ceil(-math.log10(w)) of an integral w >= 1: 1 - (number of digits)
RECURSIVE Digits(_)
Digits(w) == IF w < 10 THEN 1 ELSE 1 + Digits(w \div 10)

CeilNegLog10(w) == 1 - Digits(w)

Maximum(S) == CHOOSE m \in S : \A x \in S : x <= m

max_exp(rw) ==
    Maximum({CeilNegLog10(rw.d[l]) : l \in {k \in Range(rw.keys) : rw.d[k] > 0}} \cup {0})

\* math.floor(w*10**(8 + max_exp)) of the weights with abs(w) >= 0.1**(8 + max_exp)
scaled(rw) ==
    LET factor == 10 ^ (8 + max_exp(rw))
        kept == Restricted(rw, {l \in Range(rw.keys) : Abs(rw.d[l]) * factor >= 1})
    IN  [keys |-> kept.keys, d |-> [l \in Range(kept.keys) |-> kept.d[l] * factor]]

\* math.gcd
RECURSIVE Gcd(_, _)
Gcd(a, b) == IF b = 0 THEN Abs(a) ELSE Gcd(Abs(b), Abs(a) % Abs(b))

\* the loop gcd = math.gcd(w, gcd) over the values
RECURSIVE gcd_of(_, _)
gcd_of(rw, ks) ==
    IF ks = <<>> THEN 0 ELSE Gcd(rw.d[Head(ks)], gcd_of(rw, Tail(ks)))

\* { l : w//gcd }: an empty dict when there is nothing to divide
reduced(rw) ==
    [keys |-> rw.keys,
     d |-> [l \in Range(rw.keys) |-> rw.d[l] \div gcd_of(rw, rw.keys)]]

RECURSIVE sum_of(_, _)
sum_of(rw, ks) == IF ks = <<>> THEN 0 ELSE rw.d[Head(ks)] + sum_of(rw, Tail(ks))

\* the soft weights that are written
soft_weights(o) ==
    reduced(scaled(normalised(finite_weights(irrelevant_removed(real_weights(o))),
                              1, o.nr_vars)))

\* top = sum(real_weights.values()) + 2
maxsat_top(o) == sum_of(soft_weights(o), soft_weights(o).keys) + 2

\* the limit of top: 2**63 in the source, 2**TopBits on the scale of the model
TopLimit == 2 ^ TopBits

\* the lines written to out_file
maxsat_lines(o) ==
    LET soft == soft_weights(o)
        top == maxsat_top(o)
        units == hard_units(irrelevant_removed(real_weights(o)))
    IN  << <<"p", BLANK, "wcnf", BLANK>> \o str_int(o.nr_vars) \o <<BLANK>>
           \o str_int(Len(o.clauses) + Len(soft.keys)) \o <<BLANK>> \o str_int(top) >>
        \o [i \in 1..Len(o.clauses) |-> ints_line(str_int(top) \o <<BLANK>>, o.clauses[i])]
        \o [i \in 1..Len(units) |-> ints_line(str_int(top) \o <<BLANK>>, <<-units[i]>>)]
        \o [i \in 1..Len(soft.keys) |->
              ints_line(str_int(soft.d[soft.keys[i]]) \o <<BLANK>>, <<soft.keys[i]>>)]

\* CNF.write_maxsat_cnf without the comparison of top with the limit
write_maxsat_cnf_without_limit(o) ==
    IF Len(o.semirings) = 0 THEN [exc |-> "IndexError", lines |-> <<>>]
    ELSE IF ~maxsat_supported(o.semirings[1]) THEN [exc |-> "exit", lines |-> <<>>]
    ELSE IF negation_missing(real_weights(o)) THEN [exc |-> "KeyError", lines |-> <<>>]
    ELSE [exc |-> "none", lines |-> maxsat_lines(o)]

\* CNF.write_maxsat_cnf: how it ends and what out_file holds then
write_maxsat_cnf(o) ==
    IF Len(o.semirings) = 0 THEN [exc |-> "IndexError", lines |-> <<>>]
    ELSE IF ~maxsat_supported(o.semirings[1]) THEN [exc |-> "exit", lines |-> <<>>]
    ELSE IF negation_missing(real_weights(o)) THEN [exc |-> "KeyError", lines |-> <<>>]
    ELSE IF maxsat_top(o) >= TopLimit THEN [exc |-> "exit", lines |-> <<>>]
    ELSE [exc |-> "none", lines |-> maxsat_lines(o)]

(***************************************************************************)
(* The CNF objects and the texts the constructor and the methods of CNF    *)
(* are applied to.                                                         *)
(***************************************************************************)
Literals(n) == {l \in (-n)..n : l # 0}

\* the keys of self.weights as the programs fill it: 1, -1, 2, -2, ...
LiteralOrder(n) == [i \in 1..(2 * n) |-> to_dimacs(i - 1)]

\* MinPlusFloat(x) and MaxTimesFloat(x)
F(x) == <<x, 0>>

\* the weights of a variable and of its negation, as values of semiring s
WeightPairs(s) ==
    IF s = "minplus"
    THEN << <<F(0), F(0)>>, <<F(1), F(0)>>, <<F(0), F(MaxNumber)>>, <<F(INF), F(0)>>,
            <<F(1), F(MaxNumber)>> >>
    ELSE IF s = "maxtimes"
    THEN << <<F(1), F(1)>>, <<F(0), F(1)>>, <<F(1), F(0)>> >>
    ELSE << << <<0, 0>>, <<0, 0>> >>, << <<1, 1>>, <<0, 0>> >>, << <<NEGINF, 0>>, <<1, 2>> >> >>

\* the vector of literal l: the queries with an even number see the pair of
\* the variable swapped
WeightVector(s, k, l, Q) ==
    [q \in 1..Q |->
        IF (l > 0) = (q % 2 = 1) THEN WeightPairs(s)[k][1] ELSE WeightPairs(s)[k][2]]

\* the clause lists over n variables: none, only tautologies, satisfiable,
\* unsatisfiable, and a tautology whose two literals are not neighbours
ClauseInputs(n) ==
    IF n = 0 THEN { <<>>, << <<>> >> }
    ELSE { <<>>, << <<-1, 1>> >>, << <<1>>, <<-1>> >>, << <<1>> >> }
         \cup (IF n >= 2
               THEN { << <<1, 2, -1>> >>, << <<-2, 2>>, <<1, 2>> >>,
                      << <<1, -2>>, <<2>>, <<-1>> >> }
               ELSE {})

\* every pair of weights with no clause, and one pair with every clause list
PairChoices(n, cls, count) ==
    IF cls = <<>> THEN [1..n -> 1..count] ELSE {[v \in 1..n |-> 2]}

\* the transforms from semirings[1] into semirings[0]: the value itself, the
\* value plus one, and the first written with two blanks in a row
TransformInputs ==
    { <<"lambda", BLANK, "w", BLANK, ":", BLANK, "w.value">>,
      <<"lambda", BLANK, "w", BLANK, ":", BLANK, "w.value", BLANK, "+", BLANK, "1">>,
      <<"lambda", BLANK, "w", BLANK, ":", BLANK, BLANK, "w.value">> }

SemiringPairs == { <<"minplus", "maxtimes">>, <<"maxplusdecisions", "minplus">> }

\* the variables of S in increasing order
RECURSIVE Sorted(_)
Sorted(S) ==
    IF S = {} THEN <<>>
    ELSE LET m == CHOOSE x \in S : \A y \in S : x <= y IN <<m>> \o Sorted(S \ {m})

\* a CNF without semirings
PlainCNF(n, cls) == [EmptyCNF EXCEPT !.nr_vars = n, !.clauses = cls]

\* a CNF over the semirings sems whose level 0 holds the variables in first
WeightedCNF(n, cls, sems, first, transform, g, Q) ==
    [nr_vars |-> n, clauses |-> cls, keys |-> LiteralOrder(n),
     weights |-> [l \in Literals(n) |->
                    WeightVector(IF Abs(l) \in first THEN sems[1] ELSE sems[2],
                                 g[Abs(l)], l, Q)],
     semirings |-> sems,
     quantified |-> IF Len(sems) = 1 THEN << Sorted(first) >>
                    ELSE << Sorted(first), Sorted((1..n) \ first) >>,
     transform |-> transform]

\* the CNFs whose methods are called: they satisfy the invariants of the
\* data model and carry a weight for every literal, for one query or for
\* MaxQueries queries
ObjectInputs ==
    UNION { { PlainCNF(n, cls) : cls \in ClauseInputs(n) } : n \in 0..MaxVars }
    \cup UNION { UNION { UNION { UNION {
          { WeightedCNF(n, cls, <<s>>, 1..n, NoTransform, g, Q) :
              g \in PairChoices(n, cls, Len(WeightPairs(s))) }
          : Q \in {1, MaxQueries} } : cls \in ClauseInputs(n) } : n \in 0..MaxVars }
          : s \in SemiringModules }
    \cup UNION { UNION { UNION { UNION { UNION { UNION {
          { WeightedCNF(n, cls, sems, first, Transform(t), g, Q) :
              g \in PairChoices(n, cls, 2) }
          : Q \in {1, MaxQueries} } : t \in TransformInputs } : first \in SUBSET (1..n) }
          : cls \in ClauseInputs(n) } : n \in 0..MaxVars } : sems \in SemiringPairs }

\* a line of words with one blank between them
Words(ws) == join(BLANK, [i \in 1..Len(ws) |-> <<ws[i]>>])

ClauseLines == { <<>>, << Words(<<"1", "0">>) >> }

\* no weight, both literals, one literal only, and a line without its 0
WeightLines ==
    { <<>>,
      << Words(<<"c", "p", "weight", "1", "1.0", "0">>),
         Words(<<"c", "p", "weight", "-1", "0.0", "0">>) >>,
      << Words(<<"c", "p", "weight", "1", "1.0", "0">>) >>,
      << Words(<<"c", "p", "weight", "1", "1.0">>),
         Words(<<"c", "p", "weight", "-1", "0.0", "0">>) >> }

\* no, one, two and three semirings, and a line without its 0
SemiringLines ==
    { <<>>,
      << Words(<<"c", "p", "semirings", module_name("minplus"), "0">>) >>,
      << Words(<<"c", "p", "semirings", module_name("minplus"), module_name("maxtimes"), "0">>) >>,
      << Words(<<"c", "p", "semirings", module_name("minplus"), module_name("maxtimes"),
                 module_name("minplus"), "0">>) >>,
      << Words(<<"c", "p", "semirings", module_name("minplus"), module_name("maxtimes")>>) >> }

\* no, one and two levels, and a line without its 0
QuantifyLines ==
    { <<>>,
      << Words(<<"c", "p", "quantify", "1", "0">>) >>,
      << Words(<<"c", "p", "quantify", "1", "0">>), Words(<<"c", "p", "quantify", "0">>) >>,
      << Words(<<"c", "p", "quantify", "1">>) >> }

\* no transform, a transform, and a line without its 0
TransformLines ==
    { <<>>,
      << Words(<<"c", "p", "transform", "lambda", "w", ":", "w.value", "0">>) >>,
      << Words(<<"c", "p", "transform", "lambda", "w", ":", "w.value">>) >> }

\* the texts a CNF is constructed from: string.split("\n") of a text whose
\* lines all end with "\n"
TextInputs ==
    { << Words(<<"p", "cnf", "1", "1">>) >> \o c \o w \o s \o q \o t \o << <<>> >> :
        c \in ClauseLines, w \in WeightLines, s \in SemiringLines,
        q \in QuantifyLines, t \in TransformLines }

(***************************************************************************)
(* aspmc.graph.treedecomposition.  The tree is the networkx graph of the   *)
(* nodes 1..bags: adj[n] is the adjacency of n in the order in which the   *)
(* edges were added, which is the order tree.neighbors(n) iterates in.     *)
(* The attribute "bag" of node n is the pair <<n, gen>>: gen = 0 is the    *)
(* raw vertex set the node was built with, gen > 0 is a Bag object, made   *)
(* by the gen-th generation of Bag(...) calls; node[n] holds the fields of *)
(* that object.  The field `vertices` of a Bag refers to a set object,     *)
(* sets[n] is the content of the set object that node n was built with.    *)
(***************************************************************************)
\* root is None
None == 0

\* the reference to the raw vertex set of node n
RawSet(n) == <<n, 0>>

\* Bag(idx, vertices, children)
Bag(idx, vertices, children) ==
    [idx |-> idx, vertices |-> vertices, children |-> children]

\* nx.Graph.add_edge(u, v)
add_edge(adj, u, v) == [adj EXCEPT ![u] = Append(@, v), ![v] = Append(@, u)]

RECURSIVE add_edges(_, _)
add_edges(adj, edges) ==
    IF edges = <<>> THEN adj
    ELSE add_edges(add_edge(adj, Head(edges)[1], Head(edges)[2]), Tail(edges))

\* the trees on the nodes 1..n: node k > 1 is joined to an earlier node
\* p[k], and the edges are added in increasing or in decreasing order of k
TreeInputs(n) ==
    { add_edges([k \in 1..n |-> <<>>],
                [i \in 1..(n - 1) |->
                    LET k == IF up THEN i + 1 ELSE n + 1 - i IN <<p[k], k>>]) :
        p \in {f \in [2..n -> 1..n] : \A k \in 2..n : f[k] < k}, up \in BOOLEAN }

\* vertex sets for the nodes of a tree that make it a tree decomposition:
\* one vertex per node; the decomposition of the tree itself (a node and an
\* earlier neighbour); the same set everywhere; one large bag at node 1 or
\* at the last node and one shared vertex; a large bag at the last node
\* and empty bags elsewhere
BagInputs(adj) ==
    LET n == Len(adj)
        earlier(k) == {x \in Range(adj[k]) : x < k}
    IN  { [k \in 1..n |-> {k}],
          [k \in 1..n |-> {k} \cup earlier(k)],
          [k \in 1..n |-> {1, 2}],
          [k \in 1..n |-> IF k = 1 THEN {1, 2, 3} ELSE {1}],
          [k \in 1..n |-> IF k = n THEN {1, 2, 3} ELSE {1}],
          [k \in 1..n |-> IF k = n THEN {1, 2, 3} ELSE {}] }

\* the arguments of the constructor for a tree and its vertex sets, as
\* from_file reads them: the number of bags, the width (the size of the
\* largest bag minus one) and the number of vertices
TreeArguments(adj, sets) ==
    [bags |-> Len(adj),
     width |-> Maximum({Cardinality(sets[k]) : k \in 1..Len(adj)}) - 1,
     vertices |-> Cardinality(UNION {sets[k] : k \in 1..Len(adj)}),
     adj |-> adj,
     sets |-> sets]

\* no TreeDecomposition was constructed: the graph with its raw vertex sets
NewTree(a) ==
    [made |-> FALSE, bags |-> a.bags, width |-> a.width, vertices |-> a.vertices,
     root |-> None, gen |-> 0, adj |-> a.adj, sets |-> a.sets,
     bag |-> [k \in 1..Len(a.adj) |-> RawSet(k)],
     node |-> [k \in 1..Len(a.adj) |-> Bag(k, RawSet(k), <<>>)]]

\* next(neighbors), and once more `if neigh == parent`: the neighbour and
\* the position of the iterator, or StopIteration
NextNeighbour(adj, parent, cur, pos) ==
    LET ns == adj[cur]
    IN  IF pos >= Len(ns) THEN [stop |-> TRUE, neigh |-> 0, pos |-> pos]
        ELSE IF ns[pos + 1] # parent
        THEN [stop |-> FALSE, neigh |-> ns[pos + 1], pos |-> pos + 1]
        ELSE IF pos + 1 >= Len(ns) THEN [stop |-> TRUE, neigh |-> 0, pos |-> pos + 1]
        ELSE [stop |-> FALSE, neigh |-> ns[pos + 2], pos |-> pos + 2]

\* stack.get() and stack.put(x) of a LifoQueue
Top(stack) == stack[Len(stack)]

Popped(stack) == SubSeq(stack, 1, Len(stack) - 1)

\* [ tree.nodes[x]["bag"] for x in tree.neighbors(cur) ], the parent included
children_with_parent(t, parent, cur) ==
    [i \in 1..Len(t.adj[cur]) |-> t.bag[t.adj[cur][i]]]

\* [ tree.nodes[x]["bag"] for x in tree.neighbors(cur) if x != parent ]
children_of(t, parent, cur) ==
    LET xs == SelectSeq(t.adj[cur], LAMBDA x : x # parent)
    IN  [i \in 1..Len(xs) |-> t.bag[xs[i]]]

\* the loop of set_root: a stack entry is <<parent, cur, position of the
\* iterator neighbors>>; when the iterator is exhausted the node gets its
\* new Bag object
RECURSIVE set_root_loop(_, _, _)
set_root_loop(t, first, stack) ==
    IF stack = <<>> THEN t
    ELSE LET parent == Top(stack)[1]
             cur == Top(stack)[2]
             step == NextNeighbour(t.adj, parent, cur, Top(stack)[3])
         IN  IF ~step.stop
             THEN set_root_loop(t, first,
                                Popped(stack) \o << <<parent, cur, step.pos>>,
                                                    <<cur, step.neigh, 0>> >>)
             ELSE LET vertices == IF first THEN t.bag[cur] ELSE t.node[cur].vertices
                      made == Bag(cur, vertices, children_of(t, parent, cur))
                  IN  set_root_loop([t EXCEPT !.bag[cur] = <<cur, t.gen>>,
                                              !.node[cur] = made],
                                    first, Popped(stack))

\* TreeDecomposition.set_root
set_root(t, root) ==
    set_root_loop([t EXCEPT !.root = root, !.gen = IF t.gen = 1 THEN 2 ELSE 1],
                  t.root = None, << <<-1, root, 0>> >>)

\* TreeDecomposition.__init__(bags, width, vertices, tree, root)
TreeDecomposition_init(t, root) ==
    IF root # None THEN set_root([t EXCEPT !.made = TRUE], root)
    ELSE [t EXCEPT !.made = TRUE]

\* `if self.root is None: self.set_root(1)`
rooted(t) == IF t.root = None THEN set_root(t, 1) ELSE t

\* the loop of __iter__: the nodes in the order they are yielded
RECURSIVE iter_loop(_, _, _)
iter_loop(t, stack, yielded) ==
    IF stack = <<>> THEN yielded
    ELSE LET parent == Top(stack)[1]
             cur == Top(stack)[2]
             step == NextNeighbour(t.adj, parent, cur, Top(stack)[3])
         IN  IF ~step.stop
             THEN iter_loop(t, Popped(stack) \o << <<parent, cur, step.pos>>,
                                                  <<cur, step.neigh, 0>> >>, yielded)
             ELSE iter_loop(t, Popped(stack), Append(yielded, cur))

\* TreeDecomposition.__iter__, run to its end on a rooted decomposition
iter(t) == iter_loop(t, << <<-1, t.root, 0>> >>, <<>>)

\* the loop of bag_iter("pre-order"): the bags in the order they are yielded
RECURSIVE pre_order_loop(_, _, _)
pre_order_loop(t, stack, yielded) ==
    IF stack = <<>> THEN yielded
    ELSE LET parent == Top(stack)[1]
             cur == Top(stack)[2]
             step == NextNeighbour(t.adj, parent, cur, Top(stack)[3])
         IN  IF ~step.stop
             THEN pre_order_loop(t, Popped(stack) \o << <<parent, cur, step.pos>>,
                                                       <<cur, step.neigh, 0>> >>,
                                 Append(yielded, t.bag[step.neigh]))
             ELSE pre_order_loop(t, Popped(stack), yielded)

\* bag_iter that walks in post-order whatever order is asked for
bag_iter_in_post_order(t, order) ==
    IF order \in {"post-order", "pre-order"}
    THEN [exc |-> "none", yielded |-> [i \in 1..Len(iter(t)) |-> t.bag[iter(t)[i]]]]
    ELSE [exc |-> "exit", yielded |-> <<>>]

\* TreeDecomposition.bag_iter(order), run to its end on a rooted
\* decomposition: the bags it yielded
bag_iter(t, order) ==
    IF order = "post-order"
    THEN [exc |-> "none", yielded |-> [i \in 1..Len(iter(t)) |-> t.bag[iter(t)[i]]]]
    ELSE IF order = "pre-order"
    THEN [exc |-> "none",
          yielded |-> pre_order_loop(t, << <<-1, t.root, 0>> >>, <<t.bag[t.root]>>)]
    ELSE [exc |-> "exit", yielded |-> <<>>]

\* the set that get_bag(n).vertices refers to
vertices_of(t, n) == t.sets[t.node[n].vertices[1]]

\* the loop of find_centroid: a stack entry is <<parent, cur, position of
\* the iterator, count>>.  get_bag(-1), the bag of the parent of the root,
\* raises KeyError.
RECURSIVE find_centroid_loop(_, _)
find_centroid_loop(t, stack) ==
    LET parent == Top(stack)[1]
        cur == Top(stack)[2]
        count == Top(stack)[4]
        step == NextNeighbour(t.adj, parent, cur, Top(stack)[3])
    IN  IF ~step.stop
        THEN find_centroid_loop(t, Popped(stack) \o << <<parent, cur, step.pos, count>>,
                                                       <<cur, step.neigh, 0, 0>> >>)
        ELSE IF parent = -1 THEN Raised("KeyError")
        ELSE LET here_count == Cardinality(vertices_of(t, cur) \ vertices_of(t, parent))
                                 + count
                 below == Popped(stack)
                 pcount == Top(below)[4]
             IN  IF here_count + pcount > t.vertices \div 2
                 THEN Value(Top(below)[2])
                 ELSE find_centroid_loop(t, Popped(below)
                                            \o << <<Top(below)[1], Top(below)[2],
                                                    Top(below)[3], pcount + here_count>> >>)

\* TreeDecomposition.find_centroid on a rooted decomposition
find_centroid(t) ==
    IF t.bags = 1 THEN Value(1)
    ELSE find_centroid_loop(t, << <<-1, t.root, 0, 0>> >>)

\* TreeDecomposition.remove(vertices) on a rooted decomposition:
\* difference_update on the set of the bag of every node that is iterated
RECURSIVE remove_loop(_, _, _)
remove_loop(t, nodes, vertices) ==
    IF nodes = <<>> THEN t
    ELSE LET s == t.node[Head(nodes)].vertices[1]
         IN  remove_loop([t EXCEPT !.sets[s] = @ \ vertices], Tail(nodes), vertices)

remove(t, vertices) == remove_loop(t, iter(t), vertices)

\* a graph of one node without vertices, while no tree was read
NoTree == NewTree(TreeArguments(<< <<>> >>, << {} >>))

(***************************************************************************)
(* The state of the process.                                               *)
(***************************************************************************)
VARIABLES
    pc,                 \* position of the main control flow
    outcome,            \* how the current call ended, "running" while it runs
    evalno,             \* number of calls started so far
    strategy,           \* argument of evaluate
    preproc,            \* argument `preprocessing` of evaluate
    knowledge_compiler, \* config.config["knowledge_compiler"]
    semirings,          \* cnf.semirings (module names)
    nr_vars,            \* cnf.nr_vars
    clauses,            \* cnf.clauses
    weights,            \* cnf.weights (first query)
    disk,               \* paths that exist in the file system
    tempfiles,          \* signal_handling.tempfiles
    buffered,           \* paths written through a file object not yet closed
    children,           \* live child processes
    proc,               \* the Popen object p of the current function
    pipe,               \* lines in p.stdout that were not read yet
    solution,           \* local `solution` of solve_maxsat
    result,             \* the value the call computed
    ran,                \* backends started by the current call
    failed,             \* backends of the current call that exited nonzero
    called,             \* what the call handed over to: a solve function of
                        \* evaluate, "exit" for its abort, or "get_defined"
    cnf_source,         \* who wrote cnf.clauses last: the caller or the preprocessor
    entry,              \* tempfiles when the current solve function was entered
    created,            \* temp files the current solve function created
    returned,           \* the solve function that returned normally last
    seen,               \* the status lines the read loop of solve_maxsat has read
    self,               \* a CNF object whose methods are called one by one
    text,               \* the text a CNF is constructed from or written to
    method,             \* the constructor or method of CNF that ran last
    ret,                \* what it returned, or how it failed
    before,             \* the CNF object as it was before that call
    parsed,             \* whether the constructor made the CNF object of a text
    td,                 \* a TreeDecomposition with its tree, or the tree alone
    tdcall              \* the method of TreeDecomposition that ran last

input == <<strategy, preproc, knowledge_compiler, semirings, weights>>

cnf == <<nr_vars, clauses>>

fs == <<disk, tempfiles, buffered>>

procs == <<children, proc, pipe>>

hist == <<ran, failed, called, cnf_source>>

frame == <<entry, created, returned>>

unit == <<self, text, method, ret, before, parsed>>

graph == <<td, tdcall>>

\* no call was made yet, or the call returned nothing
NoCall == [exc |-> "none"]

\* no method of TreeDecomposition was called yet
NoTreeCall ==
    [method |-> "none", root |-> None, order |-> "", vertices |-> {},
     ret |-> NoCall, before |-> NoTree]

vars == <<pc, outcome, evalno, input, cnf, fs, procs, solution, result,
          hist, frame, seen, unit, graph>>

Strategies == {"flexible", "compilation", "maxsat"}

KnowledgeCompilers == {"c2d", "miniC2D", "sharpsat-td", "sharpsat-td-live", "d4"}

ExitCodes == {0, 1}

NoProc == [id |-> <<0, "none">>, kind |-> "none", returncode |-> -1]

\* a name returned by tempfile.mkstemp, or derived from one by a suffix
Path(ext) == <<evalno, ext>>

\* subprocess.Popen: the child is alive and has no return code yet
Popen(kind) ==
    /\ proc' = [id |-> <<evalno, kind>>, kind |-> kind, returncode |-> -1]
    /\ children' = children \cup {<<evalno, kind>>}
    /\ ran' = ran \cup {kind}

\* p.wait() / reading p.stdout to its end returns once the child is gone
Exited == proc.id \notin children

\* an exception or exit(-1) leaves the function: open files are closed
Raise(o) ==
    /\ pc' = "done"
    /\ outcome' = o
    /\ buffered' = {}

\* `return results` from evaluate
Return(v) ==
    /\ pc' = "done"
    /\ outcome' = "returned"
    /\ result' = v

ProcessInit ==
    /\ pc = "idle"
    /\ outcome = "none"
    /\ evalno = 0
    /\ strategy = "flexible"
    /\ preproc = FALSE
    /\ knowledge_compiler = "unset"
    /\ semirings = <<>>
    /\ nr_vars = 0
    /\ clauses = <<>>
    /\ weights = (1 :> 1 @@ -1 :> 1)
    /\ disk = {}
    /\ tempfiles = {}
    /\ buffered = {}
    /\ children = {}
    /\ proc = NoProc
    /\ pipe = <<>>
    /\ solution = "None"
    /\ result = "None"
    /\ ran = {}
    /\ failed = {}
    /\ called = "none"
    /\ cnf_source = "caller"
    /\ entry = {}
    /\ created = {}
    /\ returned = "none"
    /\ seen = {}

Init ==
    /\ ProcessInit
    /\ self = EmptyCNF
    /\ text = <<>>
    /\ method = "none"
    /\ ret = NoCall
    /\ before = EmptyCNF
    /\ parsed = FALSE
    /\ td = NoTree
    /\ tdcall = NoTreeCall

\* the process is between two calls: at start, or after a call returned
Idle ==
    /\ evalno < MaxEvals
    /\ \/ pc = "idle"
       \/ pc = "done" /\ outcome = "returned"

NewCall ==
    /\ evalno' = evalno + 1
    /\ outcome' = "running"
    /\ proc' = NoProc
    /\ pipe' = <<>>
    /\ solution' = "None"
    /\ result' = "None"
    /\ ran' = {}
    /\ failed' = {}
    /\ cnf_source' = "caller"
    /\ returned' = "none"
    /\ seen' = {}
    /\ UNCHANGED <<fs, children, entry, created, unit, graph>>

\* config.config["knowledge_compiler"] is set before the call and constant
\* during it; the model fixes its value k at the first read, so that calls
\* which never read it are not told apart by it
ReadConfig(k) ==
    /\ knowledge_compiler \in {"unset", k}
    /\ knowledge_compiler' = k

\* main.py: results = cnf.evaluate(strategy, preprocessing)
call_evaluate ==
    /\ Idle
    /\ NewCall
    /\ pc' = "evaluate"
    /\ called' = "none"
    /\ strategy' \in Strategies
    /\ preproc' \in BOOLEAN
    /\ knowledge_compiler' = "unset"
    /\ semirings' \in SemiringInputs
    /\ weights' \in WeightInputs(semirings')
    /\ \E c \in CNFInputs : nr_vars' = c.nr_vars /\ clauses' = c.clauses

\* evaluate without the idempotence test of its first branch: a single
\* semiring is never handed to solve_maxsat
evaluate_without_maxsat ==
    /\ pc = "evaluate"
    /\ IF strategy = "flexible"
       THEN IF Len(semirings) = 1
            THEN \E k \in KnowledgeCompilers :
                   /\ ReadConfig(k)
                   /\ IF k = "sharpsat-td" /\ semirings[1] = "probabilistic"
                      THEN pc' = "wmc_mkstemp" /\ called' = "solve_wmc"
                      ELSE pc' = "solve_compilation" /\ called' = "solve_compilation"
                   /\ UNCHANGED <<outcome, buffered>>
            ELSE /\ pc' = "solve_compilation"
                 /\ called' = "solve_compilation"
                 /\ UNCHANGED <<outcome, buffered, knowledge_compiler>>
       ELSE IF strategy = "compilation"
       THEN /\ pc' = "solve_compilation"
            /\ called' = "solve_compilation"
            /\ UNCHANGED <<outcome, buffered, knowledge_compiler>>
       ELSE /\ Raise("exit")
            /\ called' = "exit"
            /\ UNCHANGED knowledge_compiler
    /\ UNCHANGED <<evalno, unit, graph, strategy, preproc, semirings, weights, cnf, disk,
                   tempfiles, procs, solution, result, ran, failed, cnf_source,
                   frame, seen>>

\* evaluate without the semiring test of its second branch: any single
\* semiring is handed to solve_wmc when the compiler is "sharpsat-td"
evaluate_wmc_for_any_semiring ==
    /\ pc = "evaluate"
    /\ IF strategy = "flexible"
       THEN IF Len(semirings) = 1 /\ is_idempotent(semirings[1])
            THEN /\ pc' = "ms_mkstemp"
                 /\ called' = "solve_maxsat"
                 /\ UNCHANGED <<outcome, buffered, knowledge_compiler>>
            ELSE IF Len(semirings) = 1
            THEN \E k \in KnowledgeCompilers :
                   /\ ReadConfig(k)
                   /\ IF k = "sharpsat-td"
                      THEN pc' = "wmc_mkstemp" /\ called' = "solve_wmc"
                      ELSE pc' = "solve_compilation" /\ called' = "solve_compilation"
                   /\ UNCHANGED <<outcome, buffered>>
            ELSE /\ pc' = "solve_compilation"
                 /\ called' = "solve_compilation"
                 /\ UNCHANGED <<outcome, buffered, knowledge_compiler>>
       ELSE IF strategy = "compilation"
       THEN /\ pc' = "solve_compilation"
            /\ called' = "solve_compilation"
            /\ UNCHANGED <<outcome, buffered, knowledge_compiler>>
       ELSE /\ Raise("exit")
            /\ called' = "exit"
            /\ UNCHANGED knowledge_compiler
    /\ UNCHANGED <<evalno, unit, graph, strategy, preproc, semirings, weights, cnf, disk,
                   tempfiles, procs, solution, result, ran, failed, cnf_source,
                   frame, seen>>

\* CNF.evaluate: the choice of the solve function
evaluate ==
    /\ pc = "evaluate"
    /\ IF strategy = "flexible"
       THEN IF Len(semirings) = 1 /\ is_idempotent(semirings[1])
            THEN /\ pc' = "ms_mkstemp"
                 /\ called' = "solve_maxsat"
                 /\ UNCHANGED <<outcome, buffered, knowledge_compiler>>
            ELSE IF Len(semirings) = 1
            THEN \E k \in KnowledgeCompilers :
                   /\ ReadConfig(k)
                   /\ IF k = "sharpsat-td" /\ semirings[1] = "probabilistic"
                      THEN pc' = "wmc_mkstemp" /\ called' = "solve_wmc"
                      ELSE pc' = "solve_compilation" /\ called' = "solve_compilation"
                   /\ UNCHANGED <<outcome, buffered>>
            ELSE /\ pc' = "solve_compilation"
                 /\ called' = "solve_compilation"
                 /\ UNCHANGED <<outcome, buffered, knowledge_compiler>>
       ELSE IF strategy = "compilation"
       THEN /\ pc' = "solve_compilation"
            /\ called' = "solve_compilation"
            /\ UNCHANGED <<outcome, buffered, knowledge_compiler>>
       ELSE /\ Raise("exit")
            /\ called' = "exit"
            /\ UNCHANGED knowledge_compiler
    /\ UNCHANGED <<evalno, unit, graph, strategy, preproc, semirings, weights, cnf, disk,
                   tempfiles, procs, solution, result, ran, failed, cnf_source,
                   frame, seen>>

(***************************************************************************)
(* Statements on temp files, shared by the solve functions.                *)
(***************************************************************************)
\* what a step of the main flow leaves alone besides the files
rest == <<outcome, evalno, unit, graph, input, cnf, procs, solution, result, hist, seen>>

\* tempfile.mkstemp() as the first statement of a function: the file exists
mkstemp(from, to, ext) ==
    /\ pc = from
    /\ pc' = to
    /\ disk' = disk \cup {Path(ext)}
    /\ entry' = tempfiles
    /\ created' = {Path(ext)}
    /\ returned' = "none"
    /\ UNCHANGED <<rest, tempfiles, buffered>>

\* a later mkstemp(), open(name, 'w') or tree.write(name): the file exists
create_file(from, to, ext) ==
    /\ pc = from
    /\ pc' = to
    /\ disk' = disk \cup {Path(ext)}
    /\ created' = created \cup {Path(ext)}
    /\ UNCHANGED <<rest, tempfiles, buffered, entry, returned>>

\* my_signals.tempfiles.add(name)
tempfiles_add(from, to, ext) ==
    /\ pc = from
    /\ pc' = to
    /\ tempfiles' = tempfiles \cup {Path(ext)}
    /\ UNCHANGED <<rest, disk, buffered, frame>>

\* os.remove(name)
os_remove(from, to, ext) ==
    /\ pc = from
    /\ IF Path(ext) \in disk
       THEN /\ disk' = disk \ {Path(ext)}
            /\ pc' = to
            /\ UNCHANGED <<outcome, buffered>>
       ELSE /\ Raise("FileNotFoundError")
            /\ UNCHANGED disk
    /\ UNCHANGED <<evalno, unit, graph, input, cnf, tempfiles, procs, solution, result, hist,
                   frame, seen>>

\* my_signals.tempfiles.remove(name); when it is the last statement before
\* `return`, fn names the function that returns (else "none"), and the call
\* is over when the function returns to the caller of evaluate (to = "done")
tempfiles_remove(from, to, ext, fn) ==
    /\ pc = from
    /\ IF Path(ext) \in tempfiles
       THEN /\ tempfiles' = tempfiles \ {Path(ext)}
            /\ pc' = to
            /\ outcome' = IF to = "done" THEN "returned" ELSE outcome
            /\ returned' = IF fn = "none" THEN returned ELSE fn
            /\ UNCHANGED buffered
       ELSE /\ Raise("KeyError")
            /\ UNCHANGED <<tempfiles, returned>>
    /\ UNCHANGED <<evalno, unit, graph, input, cnf, disk, procs, solution, result, hist,
                   entry, created, seen>>

(***************************************************************************)
(* CNF.solve_compilation, CNF.preprocessing, CNF.evaluate_trivial,         *)
(* CNF.is_sat.                                                             *)
(***************************************************************************)
\* solve_compilation that ignores its preprocessing argument
solve_compilation_without_preprocessing ==
    /\ pc = "solve_compilation"
    /\ pc' = "evaluate_trivial"
    /\ UNCHANGED <<rest, fs, frame>>

\* solve_compilation: `if preprocessing:`
solve_compilation ==
    /\ pc = "solve_compilation"
    /\ pc' = IF preproc THEN "pp_mkstemp" ELSE "evaluate_trivial"
    /\ UNCHANGED <<rest, fs, frame>>

preprocessing_mkstemp == mkstemp("pp_mkstemp", "pp_add", "pp")

preprocessing_add == tempfiles_add("pp_add", "pp_popen", "pp")

\* the CNF is written and closed, then the preprocessor is started
preprocessing_popen ==
    /\ pc = "pp_popen"
    /\ pc' = "pp_communicate"
    /\ Popen("preprocessor")
    /\ UNCHANGED <<outcome, evalno, unit, graph, input, cnf, fs, pipe, solution, result,
                   failed, called, cnf_source, frame, seen>>

\* what an exact preprocessor prints: an equisatisfiable CNF after a
\* "p cnf" line when it succeeded, nothing when it failed
PreprocessorOutputs(code) ==
    IF code = 0
    THEN { [header |-> TRUE, nr_vars |-> c.nr_vars, clauses |-> c.clauses] :
             c \in { d \in CNFInputs :
                       Satisfiable(d.nr_vars, d.clauses) = Satisfiable(nr_vars, clauses) } }
    ELSE { [header |-> FALSE, nr_vars |-> 0, clauses |-> <<>>] }

\* q.communicate() and the parse of the output: clauses start empty, nr_vars
\* is replaced only by a "p cnf" line; the return code is not looked at
preprocessing_communicate ==
    /\ pc = "pp_communicate"
    /\ Exited
    /\ \E o \in PreprocessorOutputs(proc.returncode) :
         /\ clauses' = o.clauses
         /\ nr_vars' = IF o.header THEN o.nr_vars ELSE nr_vars
    /\ cnf_source' = "preprocessor"
    /\ pc' = "pp_remove"
    /\ UNCHANGED <<outcome, evalno, unit, graph, input, fs, procs, solution, result, ran,
                   failed, called, frame, seen>>

preprocessing_remove == os_remove("pp_remove", "pp_dereg", "pp")


\* tempfiles.remove(cnf_file_tmp); preprocessing returns to solve_compilation
preprocessing_deregister ==
    tempfiles_remove("pp_dereg", "evaluate_trivial", "pp", "preprocessing")

\* evaluate_trivial that does not return the product for an empty clause list
evaluate_trivial_without_empty_case ==
    /\ pc = "evaluate_trivial"
    /\ LET cls == remove_trivial_clauses(clauses) IN
         /\ clauses' = cls
         /\ IF Len(semirings) > 2
            THEN pc' = "sc_select"
            ELSE pc' = "is_sat_popen"
    /\ UNCHANGED <<outcome, result, evalno, unit, graph, input, nr_vars, fs, procs, solution,
                   hist, frame, seen>>

\* evaluate_trivial up to the call of is_sat
evaluate_trivial ==
    /\ pc = "evaluate_trivial"
    /\ LET cls == remove_trivial_clauses(clauses) IN
         /\ clauses' = cls
         /\ IF Len(semirings) > 2
            THEN pc' = "sc_select" /\ UNCHANGED <<outcome, result>>
            ELSE IF Len(cls) = 0
            THEN Return("product")
            ELSE pc' = "is_sat_popen" /\ UNCHANGED <<outcome, result>>
    /\ UNCHANGED <<evalno, unit, graph, input, nr_vars, fs, procs, solution, hist, frame,
                   seen>>

\* is_sat: minisat is started and the CNF is written to its stdin
is_sat_popen ==
    /\ pc = "is_sat_popen"
    /\ pc' = "is_sat_read"
    /\ Popen("minisat_oracle")
    /\ UNCHANGED <<outcome, evalno, unit, graph, input, cnf, fs, pipe, solution, result,
                   failed, called, cnf_source, frame, seen>>

\* what is_sat returns: the first status line minisat printed decides, and
\* without one the function falls off its end
OracleAnswers(code) ==
    IF code = 0
    THEN {IF Satisfiable(nr_vars, clauses) THEN "True" ELSE "False"}
    ELSE {"None"}

\* p.wait(), the scan of the output, and `elif not self.is_sat():`
is_sat_read ==
    /\ pc = "is_sat_read"
    /\ Exited
    /\ \E ans \in OracleAnswers(proc.returncode) :
         IF ans = "True"
         THEN pc' = "sc_select" /\ UNCHANGED <<outcome, result, buffered>>
         ELSE IF Len(semirings) = 2
         THEN Raise("KeyError") /\ UNCHANGED result    \* self.weights[0]
         ELSE Return("zero") /\ UNCHANGED buffered
    /\ UNCHANGED <<evalno, unit, graph, input, cnf, disk, tempfiles, procs, solution, hist,
                   frame, seen>>

\* solve_compilation: single, two, or too many semirings
solve_compilation_select ==
    /\ pc = "sc_select"
    /\ IF Len(semirings) <= 1
       THEN pc' = "scs_mkstemp" /\ UNCHANGED <<outcome, buffered>>
       ELSE IF Len(semirings) = 2
       THEN pc' = "sct_mkstemp" /\ UNCHANGED <<outcome, buffered>>
       ELSE Raise("exit")
    /\ UNCHANGED <<evalno, unit, graph, input, cnf, disk, tempfiles, procs, solution, result,
                   hist, frame, seen>>


(***************************************************************************)
(* CNF.solve_compilation_single and CNF.compile_single.                    *)
(***************************************************************************)
\* the suffix of the file that steers the compiler
TreeExt == IF knowledge_compiler = "c2d" THEN "dtree" ELSE "vtree"

HasTree == knowledge_compiler \in {"c2d", "miniC2D"}

solve_compilation_single_mkstemp == mkstemp("scs_mkstemp", "scs_add", "cnf")

\* tempfiles.add(cnf_tmp), then the test for sharpsat-td-live
solve_compilation_single_add ==
    /\ pc = "scs_add"
    /\ tempfiles' = tempfiles \cup {Path("cnf")}
    /\ \E k \in KnowledgeCompilers :
         /\ ReadConfig(k)
         /\ pc' = IF k = "sharpsat-td-live" THEN "scs_live_popen" ELSE "scs_prepare"
    /\ UNCHANGED <<outcome, evalno, unit, graph, strategy, preproc, semirings, weights, cnf,
                   disk, buffered, procs, solution, result, hist, frame, seen>>

\* sharpsat-td-live: the CNF is written and closed, the compiler is started
solve_compilation_single_live_popen ==
    /\ pc = "scs_live_popen"
    /\ pc' = "scs_live_parse"
    /\ Popen("kc_live")
    /\ UNCHANGED <<outcome, evalno, unit, graph, input, cnf, fs, pipe, solution, result,
                   failed, called, cnf_source, frame, seen>>

\* Circuit.live_parse_wmc reads p.stdout to its end; no return code is read
solve_compilation_single_live_parse ==
    /\ pc = "scs_live_parse"
    /\ Exited
    /\ pc' = "scs_live_remove"
    /\ result' = "circuit"
    /\ UNCHANGED <<outcome, evalno, unit, graph, input, cnf, fs, procs, solution, hist,
                   frame, seen>>

solve_compilation_single_live_remove ==
    os_remove("scs_live_remove", "scs_live_dereg", "cnf")

solve_compilation_single_live_deregister ==
    tempfiles_remove("scs_live_dereg", "done", "cnf", "solve_compilation_single")

\* the CNF is written and closed; c2d and miniC2D get a dtree / vtree file,
\* which is written before it is registered
solve_compilation_single_prepare ==
    /\ pc = "scs_prepare"
    /\ IF HasTree
       THEN /\ pc' = "scs_add_tree"
            /\ disk' = disk \cup {Path(TreeExt)}
            /\ created' = created \cup {Path(TreeExt)}
       ELSE /\ pc' = "cs_add_nnf"
            /\ UNCHANGED <<disk, created>>
    /\ UNCHANGED <<rest, tempfiles, buffered, entry, returned>>

solve_compilation_single_add_tree ==
    tempfiles_add("scs_add_tree", "cs_add_nnf", TreeExt)

\* compile_single: tempfiles.add(file_name + '.nnf')
compile_single_add == tempfiles_add("cs_add_nnf", "cs_popen", "nnf")

\* compile_single: the knowledge compiler is started
compile_single_popen ==
    /\ pc = "cs_popen"
    /\ pc' = "cs_wait"
    /\ Popen("kc")
    /\ UNCHANGED <<outcome, evalno, unit, graph, input, cnf, fs, pipe, solution, result,
                   failed, called, cnf_source, frame, seen>>

\* compile_single: p.wait() and `if p.returncode != 0: ... exit(-1)`
compile_single_wait ==
    /\ pc = "cs_wait"
    /\ Exited
    /\ IF proc.returncode # 0
       THEN Raise("exit")
       ELSE pc' = "scs_parse" /\ UNCHANGED <<outcome, buffered>>
    /\ UNCHANGED <<evalno, unit, graph, input, cnf, disk, tempfiles, procs, solution, result,
                   hist, frame, seen>>

\* Circuit.parse_wmc counts on the compiled circuit
solve_compilation_single_parse ==
    /\ pc = "scs_parse"
    /\ pc' = "scs_rm_cnf"
    /\ result' = "circuit"
    /\ UNCHANGED <<outcome, evalno, unit, graph, input, cnf, fs, procs, solution, hist,
                   frame, seen>>

solve_compilation_single_remove_cnf == os_remove("scs_rm_cnf", "scs_dereg_cnf", "cnf")

solve_compilation_single_deregister_cnf ==
    tempfiles_remove("scs_dereg_cnf", "scs_rm_nnf", "cnf", "none")

solve_compilation_single_remove_nnf == os_remove("scs_rm_nnf", "scs_dereg_nnf", "nnf")

solve_compilation_single_deregister_nnf ==
    tempfiles_remove("scs_dereg_nnf",
                     IF HasTree THEN "scs_rm_tree" ELSE "done",
                     "nnf",
                     IF HasTree THEN "none" ELSE "solve_compilation_single")

solve_compilation_single_remove_tree ==
    os_remove("scs_rm_tree", "scs_dereg_tree", TreeExt)

solve_compilation_single_deregister_tree ==
    tempfiles_remove("scs_dereg_tree", "done", TreeExt, "solve_compilation_single")

(***************************************************************************)
(* CNF.solve_compilation_two and CNF.compile_two.                          *)
(***************************************************************************)
solve_compilation_two_mkstemp == mkstemp("sct_mkstemp", "sct_add", "cnf")

solve_compilation_two_add == tempfiles_add("sct_add", "sct_prepare", "cnf")

\* c2d: d3.write(cnf_tmp + ".dtree"); miniC2D: the CNF, then
\* v3.write(cnf_tmp + ".vtree"); any other compiler: exit(-1)
solve_compilation_two_prepare ==
    /\ pc = "sct_prepare"
    /\ \E k \in KnowledgeCompilers :
         /\ ReadConfig(k)
         /\ IF k \in {"c2d", "miniC2D"}
            THEN /\ pc' = "sct_add_tree"
                 /\ disk' = disk \cup {Path(IF k = "c2d" THEN "dtree" ELSE "vtree")}
                 /\ created' = created \cup {Path(IF k = "c2d" THEN "dtree" ELSE "vtree")}
                 /\ UNCHANGED <<outcome, buffered>>
            ELSE /\ Raise("exit")
                 /\ UNCHANGED <<disk, created>>
    /\ UNCHANGED <<evalno, unit, graph, strategy, preproc, semirings, weights, cnf, tempfiles,
                   procs, solution, result, hist, entry, returned, seen>>

solve_compilation_two_add_tree ==
    tempfiles_add("sct_add_tree",
                  IF knowledge_compiler = "c2d" THEN "sct_add_force" ELSE "ct_add_nnf",
                  TreeExt)

\* c2d: the .force file is registered before it is opened for writing
solve_compilation_two_add_force ==
    tempfiles_add("sct_add_force", "sct_write_force", "force")

solve_compilation_two_write_force ==
    create_file("sct_write_force", "ct_add_nnf", "force")

\* compile_two: tempfiles.add(file_name + '.nnf')
compile_two_add == tempfiles_add("ct_add_nnf", "ct_popen", "nnf")

\* compile_two: the knowledge compiler is started (c2d or miniC2D)
compile_two_popen ==
    /\ pc = "ct_popen"
    /\ pc' = "ct_wait"
    /\ Popen("kc")
    /\ UNCHANGED <<outcome, evalno, unit, graph, input, cnf, fs, pipe, solution, result,
                   failed, called, cnf_source, frame, seen>>

\* compile_two: p.wait() and `if p.returncode != 0:`, where the log message
\* reads p.exitcode, which a Popen object does not have
compile_two_wait ==
    /\ pc = "ct_wait"
    /\ Exited
    /\ IF proc.returncode # 0
       THEN Raise("AttributeError")
       ELSE pc' = "sct_parse" /\ UNCHANGED <<outcome, buffered>>
    /\ UNCHANGED <<evalno, unit, graph, input, cnf, disk, tempfiles, procs, solution, result,
                   hist, frame, seen>>

\* circ.parse_wmc counts on the constrained circuit
solve_compilation_two_parse ==
    /\ pc = "sct_parse"
    /\ pc' = "sct_rm_cnf"
    /\ result' = "circuit"
    /\ UNCHANGED <<outcome, evalno, unit, graph, input, cnf, fs, procs, solution, hist,
                   frame, seen>>

solve_compilation_two_remove_cnf == os_remove("sct_rm_cnf", "sct_dereg_cnf", "cnf")

solve_compilation_two_deregister_cnf ==
    tempfiles_remove("sct_dereg_cnf", "sct_rm_nnf", "cnf", "none")

solve_compilation_two_remove_nnf == os_remove("sct_rm_nnf", "sct_dereg_nnf", "nnf")

solve_compilation_two_deregister_nnf ==
    tempfiles_remove("sct_dereg_nnf", "sct_rm_tree", "nnf", "none")

solve_compilation_two_remove_tree == os_remove("sct_rm_tree", "sct_dereg_tree", TreeExt)

solve_compilation_two_deregister_tree ==
    tempfiles_remove("sct_dereg_tree",
                     IF knowledge_compiler = "c2d" THEN "sct_rm_force" ELSE "done",
                     TreeExt,
                     IF knowledge_compiler = "c2d" THEN "none" ELSE "solve_compilation_two")

solve_compilation_two_remove_force == os_remove("sct_rm_force", "sct_dereg_force", "force")

solve_compilation_two_deregister_force ==
    tempfiles_remove("sct_dereg_force", "done", "force", "solve_compilation_two")


(***************************************************************************)
(* CNF.solve_maxsat.                                                       *)
(***************************************************************************)
solve_maxsat_mkstemp == mkstemp("ms_mkstemp", "ms_add", "cnf")

solve_maxsat_add == tempfiles_add("ms_add", "ms_weights", "cnf")

\* the semiring test, real_weights, negated_units, and `if len(real_weights) == 0`
solve_maxsat_weights ==
    /\ pc = "ms_weights"
    /\ IF semirings[1] \notin {"maxtimes", "minplus", "maxplus"}
       THEN Raise("exit")
       ELSE /\ pc' = IF soft_literals(semirings[1], weights) = {}
                     THEN "ms_sat_mkres" ELSE "ms_popen"
            /\ UNCHANGED <<outcome, buffered>>
    /\ UNCHANGED <<evalno, unit, graph, input, cnf, disk, tempfiles, procs, solution, result,
                   hist, frame, seen>>

\* SAT branch, inside `with os.fdopen(cnf_fd) as cnf_out`: the result file
solve_maxsat_sat_mkstemp == create_file("ms_sat_mkres", "ms_sat_addres", "res")

solve_maxsat_sat_add == tempfiles_add("ms_sat_addres", "ms_sat_write", "res")

\* SAT branch: cnf_out.write(...) of the header, the clauses and the units;
\* cnf_out stays open until the with block is left
solve_maxsat_sat_write ==
    /\ pc = "ms_sat_write"
    /\ pc' = "ms_sat_popen"
    /\ buffered' = buffered \cup {Path("cnf")}
    /\ UNCHANGED <<rest, disk, tempfiles, frame>>

\* SAT branch: minisat cnf_tmp res_tmp is started
solve_maxsat_sat_popen ==
    /\ pc = "ms_sat_popen"
    /\ pc' = "ms_sat_read"
    /\ Popen("minisat")
    /\ UNCHANGED <<outcome, evalno, unit, graph, input, cnf, fs, pipe, solution, result,
                   failed, called, cnf_source, frame, seen>>

\* the clauses together with the unit clauses -l for l in negated_units
SatisfiableWithUnits(n, cls, units) ==
    \E a \in [1..n -> BOOLEAN] :
        /\ \A i \in 1..Len(cls) :
             \E j \in 1..Len(cls[i]) :
                 IF cls[i][j] > 0 THEN a[cls[i][j]] ELSE ~a[-cls[i][j]]
        /\ \A l \in units : IF l > 0 THEN ~a[l] ELSE a[-l]

\* the status minisat prints: the answer for the file it read when that file
\* was complete and it exited with 0, anything otherwise
MinisatAnswers(code, complete) ==
    IF code = 0 /\ complete
    THEN { IF SatisfiableWithUnits(nr_vars, clauses,
                                   negated_units(semirings[1], weights))
           THEN "SATISFIABLE" ELSE "UNSATISFIABLE" }
    ELSE {"SATISFIABLE", "UNSATISFIABLE", "none"}

\* SAT branch: p.wait() and the scan of the output
solve_maxsat_sat_read ==
    /\ pc = "ms_sat_read"
    /\ Exited
    /\ \E ans \in MinisatAnswers(proc.returncode, Path("cnf") \notin buffered) :
         /\ result' = IF ans = "UNSATISFIABLE" THEN "zero"
                      ELSE IF ans = "SATISFIABLE" THEN "weight" ELSE result
         /\ solution' = IF ans = "none" THEN solution ELSE "list"
    /\ pc' = "ms_sat_rmres"
    /\ UNCHANGED <<outcome, evalno, unit, graph, input, cnf, fs, procs, hist, frame, seen>>

solve_maxsat_sat_remove == os_remove("ms_sat_rmres", "ms_sat_deregres", "res")

solve_maxsat_sat_deregister ==
    tempfiles_remove("ms_sat_deregres", "ms_sat_close", "res", "none")

\* SAT branch: the with block is left, cnf_out is closed
solve_maxsat_sat_close ==
    /\ pc = "ms_sat_close"
    /\ pc' = "ms_rm_cnf"
    /\ buffered' = buffered \ {Path("cnf")}
    /\ UNCHANGED <<rest, disk, tempfiles, frame>>

\* the lines a MaxSAT backend prints
Statuses == {OPTIMUM_FOUND, UNKNOWN, SATISFIABLE, UNSATISFIABLE}

TerminatedLines == {StatusLine(st, TRUE) : st \in Statuses} \cup {ModelLine(<<"1">>)}

\* a last line that lacks its line terminator
UnterminatedLines == {StatusLine(st, FALSE) : st \in Statuses \ {OPTIMUM_FOUND}}

MaxsatOutputs ==
    { o \in UNION {[1..n -> TerminatedLines \cup UnterminatedLines] : n \in 0..MaxLines} :
        \A i \in 1..(Len(o) - 1) : o[i] \in TerminatedLines }

\* MaxSAT branch: write_maxsat_cnf into cnf_out, closed by its with block;
\* then uwrmaxsat is started
solve_maxsat_popen ==
    /\ pc = "ms_popen"
    /\ pc' = "ms_loop"
    /\ Popen("uwrmaxsat")
    /\ pipe' \in MaxsatOutputs
    /\ solution' = "None"
    /\ UNCHANGED <<outcome, evalno, unit, graph, input, cnf, fs, result, failed, called,
                   cnf_source, frame, seen>>

\* the status a line carries, whatever its terminator
StatusOf(line) ==
    LET body == IF line[Len(line)] = NL THEN SliceFromButLast(line, 2)
                ELSE SliceFrom(line, 2)
    IN  IF ~StartsWith(line, "s") THEN "none"
        ELSE IF body = UNKNOWN THEN "UNKNOWN"
        ELSE IF body = SATISFIABLE THEN "SATISFIABLE"
        ELSE IF body = UNSATISFIABLE THEN "UNSATISFIABLE"
        ELSE IF body = OPTIMUM_FOUND THEN "OPTIMUM FOUND"
        ELSE "none"

\* the body of the read loop for a line that readline() returned
ReadLine(line) ==
    IF StartsWith(line, "s")
    THEN IF SliceFrom(line, 2) = OPTIMUM_FOUND
         THEN UNCHANGED <<pc, outcome, buffered, solution, result>>
         ELSE IF SliceFrom(line, 2) = UNKNOWN
         THEN Raise("SolvingError") /\ UNCHANGED <<solution, result>>
         ELSE IF SliceFrom(line, 2) = SATISFIABLE
         THEN Raise("SolvingError") /\ UNCHANGED <<solution, result>>
         ELSE IF SliceFrom(line, 2) = UNSATISFIABLE
         THEN /\ result' = "zero"
              /\ solution' = "list"
              /\ UNCHANGED <<pc, outcome, buffered>>
         ELSE UNCHANGED <<pc, outcome, buffered, solution, result>>
    ELSE IF line[1] = "v"
    THEN /\ solution' = "list"
         /\ result' = "weight"
         /\ UNCHANGED <<pc, outcome, buffered>>
    ELSE UNCHANGED <<pc, outcome, buffered, solution, result>>

\* one turn of `while p.poll() is None or solution is None`: readline()
\* returns the next line, or the empty string once the backend has exited
\* and the pipe is drained (`continue`)
solve_maxsat_loop ==
    /\ pc = "ms_loop"
    /\ ~Exited \/ solution = "None"
    /\ IF pipe # <<>>
       THEN /\ pipe' = Tail(pipe)
            /\ seen' = seen \cup {StatusOf(Head(pipe))}
            /\ ReadLine(Head(pipe))
       ELSE /\ Exited
            /\ UNCHANGED <<pc, outcome, buffered, solution, result, pipe, seen>>
    /\ UNCHANGED <<evalno, unit, graph, input, cnf, disk, tempfiles, children, proc, hist, frame>>

\* the loop is left; `if solution is None: raise SolvingError(...)`
solve_maxsat_after_loop ==
    /\ pc = "ms_loop"
    /\ ~(~Exited \/ solution = "None")
    /\ IF solution = "None"
       THEN Raise("SolvingError")
       ELSE pc' = "ms_rm_cnf" /\ UNCHANGED <<outcome, buffered>>
    /\ UNCHANGED <<evalno, unit, graph, input, cnf, disk, tempfiles, procs, solution, result,
                   hist, frame, seen>>

solve_maxsat_remove == os_remove("ms_rm_cnf", "ms_readd", "cnf")

\* my_signals.tempfiles.add(cnf_tmp); return weight
solve_maxsat_return ==
    /\ pc = "ms_readd"
    /\ tempfiles' = tempfiles \cup {Path("cnf")}
    /\ IF result = "None"
       THEN Raise("UnboundLocalError") /\ UNCHANGED returned
       ELSE /\ pc' = "done"
            /\ outcome' = "returned"
            /\ returned' = "solve_maxsat"
            /\ UNCHANGED buffered
    /\ UNCHANGED <<evalno, unit, graph, input, cnf, disk, procs, solution, result, hist,
                   entry, created, seen>>

(***************************************************************************)
(* CNF.solve_wmc.                                                          *)
(***************************************************************************)
solve_wmc_mkstemp == mkstemp("wmc_mkstemp", "wmc_add", "cnf")

solve_wmc_add == tempfiles_add("wmc_add", "wmc_popen", "cnf")

\* to_file(cnf_tmp, extras=True), then sharpSAT -MWD is started
solve_wmc_popen ==
    /\ pc = "wmc_popen"
    /\ pc' = "wmc_read"
    /\ Popen("sharpSAT")
    /\ UNCHANGED <<outcome, evalno, unit, graph, input, cnf, fs, pipe, solution, result,
                   failed, called, cnf_source, frame, seen>>

\* p.wait(), the scan for "c s exact arb float ", and `if result is None`
\* with `result` never bound when no such line was printed
solve_wmc_read ==
    /\ pc = "wmc_read"
    /\ Exited
    /\ \E printed \in BOOLEAN :
         IF printed
         THEN /\ result' = "count"
              /\ pc' = "wmc_rm"
              /\ UNCHANGED <<outcome, buffered>>
         ELSE /\ Raise("UnboundLocalError")
              /\ UNCHANGED result
    /\ UNCHANGED <<evalno, unit, graph, input, cnf, disk, tempfiles, procs, solution, hist,
                   frame, seen>>

solve_wmc_remove == os_remove("wmc_rm", "wmc_readd", "cnf")

\* my_signals.tempfiles.add(cnf_tmp); return result
solve_wmc_return ==
    /\ pc = "wmc_readd"
    /\ tempfiles' = tempfiles \cup {Path("cnf")}
    /\ pc' = "done"
    /\ outcome' = "returned"
    /\ returned' = "solve_wmc"
    /\ UNCHANGED <<evalno, unit, graph, input, cnf, disk, buffered, procs, solution, result,
                   hist, entry, created, seen>>


(***************************************************************************)
(* CNF.get_defined.                                                        *)
(***************************************************************************)
\* a caller asks for the variables defined by a set of inputs
call_get_defined ==
    /\ Idle
    /\ NewCall
    /\ pc' = "gd_mkstemp"
    /\ called' = "get_defined"
    /\ strategy' = "flexible"
    /\ preproc' = FALSE
    /\ knowledge_compiler' = "unset"
    /\ semirings' = <<>>
    /\ weights' = (1 :> 1 @@ -1 :> 1)
    /\ \E c \in CNFInputs : nr_vars' = c.nr_vars /\ clauses' = c.clauses

get_defined_mkstemp_cnf == mkstemp("gd_mkstemp", "gd_add_cnf", "def_cnf")

get_defined_add_cnf == tempfiles_add("gd_add_cnf", "gd_mkstemp_input", "def_cnf")

get_defined_mkstemp_input == create_file("gd_mkstemp_input", "gd_add_input", "def_input")

get_defined_add_input == tempfiles_add("gd_add_input", "gd_popen", "def_input")

\* both files are written and closed, then `timeout ... defined` is started
get_defined_popen ==
    /\ pc = "gd_popen"
    /\ pc' = "gd_read"
    /\ Popen("defined")
    /\ UNCHANGED <<outcome, evalno, unit, graph, input, cnf, fs, pipe, solution, result,
                   failed, called, cnf_source, frame, seen>>

\* p.wait() and the list read from p.stdout
get_defined_read ==
    /\ pc = "gd_read"
    /\ Exited
    /\ pc' = "gd_rm_cnf"
    /\ result' = "defined"
    /\ UNCHANGED <<outcome, evalno, unit, graph, input, cnf, fs, procs, solution, hist,
                   frame, seen>>

get_defined_remove_cnf == os_remove("gd_rm_cnf", "gd_dereg_cnf", "def_cnf")

get_defined_deregister_cnf ==
    tempfiles_remove("gd_dereg_cnf", "gd_rm_input", "def_cnf", "none")

get_defined_remove_input == os_remove("gd_rm_input", "gd_dereg_input", "def_input")

get_defined_deregister_input ==
    tempfiles_remove("gd_dereg_input", "done", "def_input", "get_defined")

(***************************************************************************)
(* The environment: child processes and signals.                           *)
(***************************************************************************)
\* the child of the current function exits with some code; a knowledge
\* compiler that exits with 0 has written its circuit
child_exit ==
    /\ outcome = "running"
    /\ proc.id \in children
    /\ \E code \in ExitCodes :
         /\ (proc.kind = "kc" /\ code = 0) => Path("nnf") \in disk
         /\ proc' = [proc EXCEPT !.returncode = code]
         /\ failed' = IF code # 0 THEN failed \cup {proc.kind} ELSE failed
    /\ children' = children \ {proc.id}
    /\ UNCHANGED <<pc, outcome, evalno, unit, graph, input, cnf, fs, pipe, solution, result,
                   ran, called, cnf_source, frame, seen>>

\* the knowledge compiler creates file_name + ".nnf" while it runs
compiler_writes_nnf ==
    /\ outcome = "running"
    /\ proc.kind = "kc"
    /\ proc.id \in children
    /\ Path("nnf") \notin disk
    /\ disk' = disk \cup {Path("nnf")}
    /\ created' = created \cup {Path("nnf")}
    /\ UNCHANGED <<pc, rest, tempfiles, buffered, entry, returned>>

\* signal_handling.handler, run on SIGINT or SIGTERM between two steps of a
\* call.  os.remove raises FileNotFoundError for a registered path that does
\* not exist; the set is walked in no particular order, so any of the
\* existing files may have been removed before that.  Only when every
\* registered file existed are the children killed and is KeyboardInterrupt
\* raised.
handler ==
    /\ outcome = "running"
    /\ pc' = "done"
    /\ buffered' = {}
    /\ IF tempfiles \subseteq disk
       THEN /\ disk' = disk \ tempfiles
            /\ children' = {}
            /\ outcome' = "KeyboardInterrupt"
       ELSE /\ \E removed \in SUBSET (tempfiles \cap disk) : disk' = disk \ removed
            /\ children' = children
            /\ outcome' = "FileNotFoundError"
    /\ UNCHANGED <<evalno, unit, graph, input, cnf, tempfiles, proc, pipe, solution, result,
                   hist, frame, seen>>

(***************************************************************************)
(* The specification.                                                      *)
(***************************************************************************)
\* the steps of the Python process
Program ==
    \/ call_evaluate
    \/ evaluate
    \/ solve_compilation
    \/ preprocessing_mkstemp
    \/ preprocessing_add
    \/ preprocessing_popen
    \/ preprocessing_communicate
    \/ preprocessing_remove
    \/ preprocessing_deregister
    \/ evaluate_trivial
    \/ is_sat_popen
    \/ is_sat_read
    \/ solve_compilation_select
    \/ solve_compilation_single_mkstemp
    \/ solve_compilation_single_add
    \/ solve_compilation_single_live_popen
    \/ solve_compilation_single_live_parse
    \/ solve_compilation_single_live_remove
    \/ solve_compilation_single_live_deregister
    \/ solve_compilation_single_prepare
    \/ solve_compilation_single_add_tree
    \/ compile_single_add
    \/ compile_single_popen
    \/ compile_single_wait
    \/ solve_compilation_single_parse
    \/ solve_compilation_single_remove_cnf
    \/ solve_compilation_single_deregister_cnf
    \/ solve_compilation_single_remove_nnf
    \/ solve_compilation_single_deregister_nnf
    \/ solve_compilation_single_remove_tree
    \/ solve_compilation_single_deregister_tree
    \/ solve_compilation_two_mkstemp
    \/ solve_compilation_two_add
    \/ solve_compilation_two_prepare
    \/ solve_compilation_two_add_tree
    \/ solve_compilation_two_add_force
    \/ solve_compilation_two_write_force
    \/ compile_two_add
    \/ compile_two_popen
    \/ compile_two_wait
    \/ solve_compilation_two_parse
    \/ solve_compilation_two_remove_cnf
    \/ solve_compilation_two_deregister_cnf
    \/ solve_compilation_two_remove_nnf
    \/ solve_compilation_two_deregister_nnf
    \/ solve_compilation_two_remove_tree
    \/ solve_compilation_two_deregister_tree
    \/ solve_compilation_two_remove_force
    \/ solve_compilation_two_deregister_force
    \/ solve_maxsat_mkstemp
    \/ solve_maxsat_add
    \/ solve_maxsat_weights
    \/ solve_maxsat_sat_mkstemp
    \/ solve_maxsat_sat_add
    \/ solve_maxsat_sat_write
    \/ solve_maxsat_sat_popen
    \/ solve_maxsat_sat_read
    \/ solve_maxsat_sat_remove
    \/ solve_maxsat_sat_deregister
    \/ solve_maxsat_sat_close
    \/ solve_maxsat_popen
    \/ solve_maxsat_loop
    \/ solve_maxsat_after_loop
    \/ solve_maxsat_remove
    \/ solve_maxsat_return
    \/ solve_wmc_mkstemp
    \/ solve_wmc_add
    \/ solve_wmc_popen
    \/ solve_wmc_read
    \/ solve_wmc_remove
    \/ solve_wmc_return
    \/ call_get_defined
    \/ get_defined_mkstemp_cnf
    \/ get_defined_add_cnf
    \/ get_defined_mkstemp_input
    \/ get_defined_add_input
    \/ get_defined_popen
    \/ get_defined_read
    \/ get_defined_remove_cnf
    \/ get_defined_deregister_cnf
    \/ get_defined_remove_input
    \/ get_defined_deregister_input

\* the steps of the child processes
Backends == child_exit \/ compiler_writes_nnf

Next == Program \/ Backends \/ handler

Spec == Init /\ [][Next]_vars

\* the interpreter keeps running the main flow and a started backend keeps
\* running; nothing forces a signal to be delivered
FairSpec == Spec /\ WF_vars(Program) /\ WF_vars(Backends)

(***************************************************************************)
(* The constructor and the methods of CNF, called on their own: on a CNF   *)
(* object that a program built, or on a text and then on the CNF that the  *)
(* constructor made of it.  The process of the dispatcher stands still.    *)
(***************************************************************************)
main == <<pc, outcome, evalno, input, cnf, fs, procs, solution, result,
          hist, frame, seen>>

UnitInit ==
    /\ ProcessInit
    /\ method = "none"
    /\ ret = NoCall
    /\ before = EmptyCNF
    /\ parsed = FALSE
    /\ \/ self \in ObjectInputs /\ text = <<>>
       \/ self = EmptyCNF /\ text \in TextInputs
    /\ td = NoTree
    /\ tdcall = NoTreeCall

\* a CNF is at hand: one that a program built, or one the constructor returned
HasObject ==
    \/ method = "none" /\ text = <<>>
    \/ method = "__init__" /\ ret.exc = "none"

\* CNF(string = text): on a failure no object is made
Construct ==
    /\ method \in {"none", "to_stream", "to_file", "__str__"}
    /\ text # <<>>
    /\ ret.exc = "none"
    /\ LET o == CNF_init(text)
       IN  /\ self' = IF o.exc = "none" THEN object(o) ELSE self
           /\ ret' = [exc |-> o.exc]
           /\ parsed' = (o.exc = "none")
    /\ method' = "__init__"
    /\ before' = self
    /\ UNCHANGED <<text, main, graph>>

\* cnf.to_stream(stream, extras)
ToStream ==
    /\ method = "none" /\ text = <<>>
    /\ \E extras \in BOOLEAN :
        /\ text' = IF extras /\ write_exc(self) # "none" THEN clause_lines(self)
                   ELSE to_stream(self, extras)
        /\ ret' = [exc |-> IF extras THEN write_exc(self) ELSE "none", extras |-> extras]
    /\ method' = "to_stream"
    /\ before' = self
    /\ UNCHANGED <<self, parsed, main, graph>>

\* cnf.to_file(path, extras)
ToFile ==
    /\ method = "none" /\ text = <<>>
    /\ \E extras \in BOOLEAN :
        /\ text' = IF extras /\ write_exc(self) # "none" THEN clause_lines(self)
                   ELSE to_file(self, extras)
        /\ ret' = [exc |-> IF extras THEN write_exc(self) ELSE "none", extras |-> extras]
    /\ method' = "to_file"
    /\ before' = self
    /\ UNCHANGED <<self, parsed, main, graph>>

\* str(cnf)
Str ==
    /\ method = "none" /\ text = <<>>
    /\ text' = IF write_exc(self) # "none" THEN <<>> ELSE CNF_str(self)
    /\ ret' = [exc |-> write_exc(self), extras |-> TRUE]
    /\ method' = "__str__"
    /\ before' = self
    /\ UNCHANGED <<self, parsed, main, graph>>

\* cnf.remove_trivial_clauses()
RemoveTrivialClauses ==
    /\ HasObject
    /\ self' = CNF_remove_trivial_clauses(self)
    /\ ret' = NoCall
    /\ method' = "remove_trivial_clauses"
    /\ before' = self
    /\ UNCHANGED <<text, parsed, main, graph>>

\* cnf.evaluate_trivial()
EvaluateTrivial ==
    /\ HasObject
    /\ self' = CNF_remove_trivial_clauses(self)
    /\ ret' = CNF_evaluate_trivial(self)
    /\ method' = "evaluate_trivial"
    /\ before' = self
    /\ UNCHANGED <<text, parsed, main, graph>>

\* cnf.get_weights()
GetWeights ==
    /\ HasObject
    /\ ret' = get_weights(self)
    /\ method' = "get_weights"
    /\ before' = self
    /\ UNCHANGED <<self, text, parsed, main, graph>>

\* cnf.write_maxsat_cnf(out_file) on an empty file
WriteMaxsatCnf ==
    /\ HasObject
    /\ ret' = [exc |-> write_maxsat_cnf(self).exc]
    /\ text' = write_maxsat_cnf(self).lines
    /\ method' = "write_maxsat_cnf"
    /\ before' = self
    /\ UNCHANGED <<self, parsed, main, graph>>

(***************************************************************************)
(* CNF.solve_maxsat as a function of the CNF and of what the backend       *)
(* answers.  The MaxSAT backend is an exact solver: on the file it is      *)
(* given it prints a 'v' line with an assignment that satisfies every      *)
(* clause of weight top and maximises the weight of the satisfied soft     *)
(* clauses, or "s UNSATISFIABLE" when no assignment satisfies the former.  *)
(***************************************************************************)
\* the assignments of the variables 1..n, as the list `solution` of literals
Assignments(n) ==
    { [i \in 1..n |-> IF b[i] THEN i ELSE -i] : b \in [1..n -> BOOLEAN] }

\* the assignment makes a literal of the clause true
SatisfiedBy(sol, clause) == \E j \in 1..Len(clause) : clause[j] \in Range(sol)

\* the backend reads a number of the WCNF
WcnfNumber(word) == CHOOSE w \in 0..TopLimit : word = str_int(w)

\* the backend reads the lines '<weight> <literal> ... 0' from line i on:
\* the weight of every clause and the set of its literals
RECURSIVE WcnfClauses(_, _)
WcnfClauses(lines, i) ==
    IF i > Len(lines) THEN <<>>
    ELSE LET ws == split(lines[i])
         IN  << <<WcnfNumber(ws[1]), {int(ws[j]) : j \in 2..(Len(ws) - 1)}>> >>
             \o WcnfClauses(lines, i + 1)

\* the top of the header 'p wcnf <nr_vars> <clauses> <top>'
WcnfTop(lines) == WcnfNumber(split(lines[1])[5])

\* the assignment satisfies every clause whose weight is top
SatisfiesHard(top, cls, sol) ==
    \A i \in 1..Len(cls) : cls[i][1] = top => cls[i][2] \cap Range(sol) # {}

\* the weight of the soft clauses from the i-th on that the assignment
\* satisfies
RECURSIVE SatisfiedWeight(_, _, _, _)
SatisfiedWeight(top, cls, sol, i) ==
    IF i > Len(cls) THEN 0
    ELSE (IF cls[i][1] # top /\ cls[i][2] \cap Range(sol) # {} THEN cls[i][1] ELSE 0)
         + SatisfiedWeight(top, cls, sol, i + 1)

\* the assignments an exact MaxSAT solver may print for the file
OptimalModels(lines, n) ==
    LET top == WcnfTop(lines)
        cls == WcnfClauses(lines, 2)
        feasible == {sol \in Assignments(n) : SatisfiesHard(top, cls, sol)}
        best == Maximum({SatisfiedWeight(top, cls, sol, 1) : sol \in feasible})
    IN  {sol \in feasible : SatisfiedWeight(top, cls, sol, 1) = best}

\* weight *= weights[to_pos(lit)], per query
weight_times(s, weight, flat, lit) ==
    [q \in 1..Len(weight) |-> mul(s, weight[q], Item(flat, to_pos(lit))[q])]

\* weight[:] = one; for lit in solution: weight *= weights[to_pos(lit)]
RECURSIVE weight_of_solution(_, _, _, _)
weight_of_solution(s, weight, flat, lits) ==
    IF lits = <<>> THEN weight
    ELSE weight_of_solution(s, weight_times(s, weight, flat, Head(lits)), flat,
                            Tail(lits))

\* real_weights of solve_maxsat before it chooses its branch: the relevant
\* literals whose weight is neither -inf nor 0
remaining_weights(o) ==
    LET rw == irrelevant_removed(real_weights(o))
    IN  Restricted(rw, {l \in Range(rw.keys) : rw.d[l] # NEGINF /\ Abs(rw.d[l]) > 0})

\* the file of the plain SAT branch is still in the buffer of cnf_out when
\* minisat reads it: minisat may see the whole file, or less.  It answers
\* UNSATISFIABLE, or SATISFIABLE with the model of what it read, which is
\* some assignment or, for a file without a variable, the empty one.
sat_branch_values(o, flat) ==
    LET s == o.semirings[1]
        Q == Len(flat[1])
    IN  { Filled(Q, semiring_zero(s)) }
        \cup { weight_of_solution(s, Filled(Q, semiring_one(s)), flat, sol) :
                 sol \in Assignments(o.nr_vars) \cup {<<>>} }

\* the MaxSAT branch: the value of an assignment that the backend printed.
\* After "s UNSATISFIABLE\n" no branch of the loop assigns solution and the
\* loop is not left.
maxsat_branch_outcomes(o, flat) ==
    LET s == o.semirings[1]
        Q == Len(flat[1])
        written == write_maxsat_cnf(o)
        models == OptimalModels(written.lines, o.nr_vars)
    IN  IF written.exc # "none" THEN {Raised(written.exc)}
        ELSE IF models = {} THEN {Raised("no return")}
        ELSE { Value(weight_of_solution(s, Filled(Q, semiring_one(s)), flat, sol)) :
                 sol \in models }

\* CNF.solve_maxsat: how the call may end
solve_maxsat(o) ==
    IF Len(o.semirings) = 0 THEN {Raised("IndexError")}
    ELSE IF ~maxsat_supported(o.semirings[1]) THEN {Raised("exit")}
    ELSE IF negation_missing(real_weights(o)) THEN {Raised("KeyError")}
    ELSE IF get_weights(o).exc # "none" THEN {Raised(get_weights(o).exc)}
    ELSE IF get_weights(o).weights = <<>> THEN {Raised("IndexError")}
    ELSE IF remaining_weights(o).keys = <<>>
    THEN {Value(v) : v \in sat_branch_values(o, get_weights(o).weights)}
    ELSE maxsat_branch_outcomes(o, get_weights(o).weights)

\* cnf.solve_maxsat(); text is the file that the MaxSAT backend was given
SolveMaxsat ==
    /\ HasObject
    /\ ret' \in solve_maxsat(self)
    /\ text' = IF ret'.exc \in {"none", "no return"} /\ remaining_weights(self).keys # <<>>
               THEN write_maxsat_cnf(self).lines ELSE <<>>
    /\ method' = "solve_maxsat"
    /\ before' = self
    /\ UNCHANGED <<self, parsed, main, graph>>

UnitNext ==
    \/ Construct
    \/ ToStream
    \/ ToFile
    \/ Str
    \/ RemoveTrivialClauses
    \/ EvaluateTrivial
    \/ GetWeights
    \/ WriteMaxsatCnf
    \/ SolveMaxsat

UnitSpec == UnitInit /\ [][UnitNext]_vars

(***************************************************************************)
(* The constructor and the methods of TreeDecomposition, called one by one *)
(* on a tree with its vertex sets.                                         *)
(***************************************************************************)
TreeInit ==
    /\ ProcessInit
    /\ self = EmptyCNF
    /\ text = <<>>
    /\ method = "none"
    /\ ret = NoCall
    /\ before = EmptyCNF
    /\ parsed = FALSE
    /\ \E n \in 1..MaxBags : \E adj \in TreeInputs(n) : \E sets \in BagInputs(adj) :
         td = NewTree(TreeArguments(adj, sets))
    /\ tdcall = NoTreeCall

\* the call that ran last, with the decomposition as it was before it
TreeCall(name, root, order, vertices, r) ==
    [method |-> name, root |-> root, order |-> order, vertices |-> vertices,
     ret |-> r, before |-> td]

\* the process has not left through exit(-1)
TreeAlive == tdcall.ret.exc # "exit"

\* TreeDecomposition(bags, width, vertices, tree, root): root is 1 unless
\* the caller passes a node or None
Construct_tree ==
    /\ ~td.made
    /\ \E root \in {None} \cup (1..td.bags) :
         /\ td' = TreeDecomposition_init(td, root)
         /\ tdcall' = TreeCall("__init__", root, "", {}, NoCall)
    /\ UNCHANGED <<main, unit>>

\* td.set_root(root)
SetRoot ==
    /\ td.made
    /\ TreeAlive
    /\ \E root \in 1..td.bags :
         /\ td' = set_root(td, root)
         /\ tdcall' = TreeCall("set_root", root, "", {}, NoCall)
    /\ UNCHANGED <<main, unit>>

Orders == {"post-order", "pre-order", "in-order"}

\* list(td.bag_iter(order))
BagIter ==
    /\ td.made
    /\ TreeAlive
    /\ \E order \in Orders :
         /\ td' = IF order = "in-order" THEN td ELSE rooted(td)
         /\ tdcall' = TreeCall("bag_iter", None, order, {}, bag_iter(rooted(td), order))
    /\ UNCHANGED <<main, unit>>

\* td.find_centroid()
FindCentroid ==
    /\ td.made
    /\ TreeAlive
    /\ td' = rooted(td)
    /\ tdcall' = TreeCall("find_centroid", None, "", {}, find_centroid(rooted(td)))
    /\ UNCHANGED <<main, unit>>

\* td.remove(vertices)
Remove ==
    /\ td.made
    /\ TreeAlive
    /\ \E vertices \in SUBSET (1..MaxRemoved) :
         /\ td' = remove(rooted(td), vertices)
         /\ tdcall' = TreeCall("remove", None, "", vertices, NoCall)
    /\ UNCHANGED <<main, unit>>

TreeNext ==
    \/ Construct_tree
    \/ SetRoot
    \/ BagIter
    \/ FindCentroid
    \/ Remove

TreeSpec == TreeInit /\ [][TreeNext]_vars


(***************************************************************************)
(* Properties of the temp-file registry and of the signal handler.         *)
(***************************************************************************)
\* C1: after solve_maxsat, solve_wmc, solve_compilation_single,
\* solve_compilation_two, preprocessing or get_defined returns normally,
\* every temp file the call created is deleted and deregistered, and
\* tempfiles is what it was before the call.
\* Refuted: solve_maxsat and solve_wmc end with tempfiles.add(cnf_tmp).
TempfilesRestoredOnReturn ==
    returned # "none" =>
        /\ created \cap disk = {}
        /\ created \cap tempfiles = {}
        /\ tempfiles = entry

\* C2: every run of the signal handler deletes every registered file, kills
\* every live child and then raises KeyboardInterrupt.
\* Refuted: a registered path without a file makes os.remove raise first.
HandlerCleansUpThenCancels ==
    [][handler => /\ tempfiles \cap disk' = {}
                  /\ children' = {}
                  /\ outcome' = "KeyboardInterrupt"]_vars

(***************************************************************************)
(* Properties of the dispatch in CNF.evaluate.                             *)
(***************************************************************************)
\* the backends that compute the result of an evaluation
SolvingBackends == {"uwrmaxsat", "sharpSAT", "kc", "kc_live"}

\* a CNF without a non-tautological clause, or without a model
TrivialCNF ==
    \/ Len(remove_trivial_clauses(clauses)) = 0
    \/ ~Satisfiable(nr_vars, clauses)

\* the value evaluate_trivial computes for such a CNF
TrivialValue ==
    IF Len(remove_trivial_clauses(clauses)) = 0 THEN "product" ELSE "zero"

\* evaluate has chosen a solve function
Dispatched == called \in {"solve_maxsat", "solve_wmc", "solve_compilation"}

\* C3 as stated: whatever solve function evaluate chooses, on a trivial CNF
\* no MaxSAT, counting or compilation backend is started and the value that
\* is returned is the trivial one.
\* Refuted: solve_maxsat and solve_wmc do not call evaluate_trivial.
TrivialShortcutBeforeDispatch ==
    (Dispatched /\ TrivialCNF) =>
        /\ ran \cap SolvingBackends = {}
        /\ outcome = "returned" => result = TrivialValue

\* C3: on the path through solve_compilation, on a trivial CNF no MaxSAT,
\* counting or compilation backend is started and the value that is returned
\* is the one of evaluate_trivial.
TrivialShortcutInSolveCompilation ==
    (called = "solve_compilation" /\ TrivialCNF) =>
        /\ ran \cap SolvingBackends = {}
        /\ outcome = "returned" => result = TrivialValue

\* C3: an unsatisfiable CNF with a clause left got the zero of the semiring
\* from solve_compilation under strategy "flexible"
TrivialShortcutTaken ==
    /\ called = "solve_compilation"
    /\ strategy = "flexible"
    /\ TrivialCNF
    /\ "minisat_oracle" \in ran
    /\ outcome = "returned"
    /\ result = "zero"

\* C4: "flexible" with exactly one idempotent semiring runs solve_maxsat and
\* no knowledge compiler; "compilation" runs solve_compilation whatever the
\* semirings; any other strategy aborts before any backend is started.
DispatchByStrategy ==
    called \notin {"none", "get_defined"} =>
        /\ (strategy = "flexible" /\ Len(semirings) = 1 /\ is_idempotent(semirings[1]))
              => (called = "solve_maxsat" /\ ran \cap {"kc", "kc_live"} = {})
        /\ strategy = "compilation" => called = "solve_compilation"
        /\ strategy \notin {"flexible", "compilation"}
              => (called = "exit" /\ outcome = "exit" /\ ran = {} /\ result = "None")

\* C4: a flexible evaluation over one idempotent semiring returned the
\* weight the MaxSAT backend found
MaxsatReductionReturned ==
    /\ strategy = "flexible"
    /\ Len(semirings) = 1
    /\ is_idempotent(semirings[1])
    /\ called = "solve_maxsat"
    /\ "uwrmaxsat" \in ran
    /\ outcome = "returned"

\* "flexible" with a single semiring that is not idempotent, dispatched
FlexibleSingleNonIdempotent ==
    /\ Dispatched
    /\ strategy = "flexible"
    /\ Len(semirings) = 1
    /\ ~is_idempotent(semirings[1])

PreprocessingIsDue ==
    /\ preproc
    /\ \/ ran \ {"preprocessor"} # {}
       \/ outcome = "returned"

\* the preprocessor has run to its end and the CNF is its output
Preprocessed ==
    /\ "preprocessor" \in ran
    /\ <<evalno, "preprocessor">> \notin children
    /\ cnf_source = "preprocessor"

\* C6 as stated: with preprocessing=True the CNF is the preprocessor's
\* output before any other backend is started and before a value is
\* returned, whatever solve function evaluate chooses.
\* Refuted: solve_maxsat and solve_wmc do not preprocess.
PreprocessingBeforeDispatch ==
    (Dispatched /\ PreprocessingIsDue) => Preprocessed

\* C6: with preprocessing=True, on the path through solve_compilation the
\* CNF is the preprocessor's output before the trivial shortcut and before
\* any other backend is started.
PreprocessingInSolveCompilation ==
    /\ (called = "solve_compilation" /\ PreprocessingIsDue) => Preprocessed
    /\ (called = "solve_compilation" /\ preproc /\ pc = "evaluate_trivial")
          => Preprocessed

\* C6: a preprocessed CNF was compiled and counted
PreprocessedThenCompiled ==
    /\ preproc
    /\ called = "solve_compilation"
    /\ Preprocessed
    /\ "kc" \in ran
    /\ outcome = "returned"
    /\ result = "circuit"

(***************************************************************************)
(* Properties of the handling of backend failures.                         *)
(***************************************************************************)
\* C7: a nonzero exit code of any backend of an evaluation ends it in a
\* fatal error, and no value is returned.
\* Refuted: only compile_single and compile_two look at the return code.
NonzeroExitIsFatal ==
    failed # {} => outcome # "returned"

\* C8: when compile_single or compile_two abort after a nonzero exit code of
\* the compiler, the temp files of the compilation are deleted and
\* deregistered.
\* Refuted: exit(-1) is reached with the files in place and registered.
CleanupBeforeAbort ==
    ("kc" \in failed /\ outcome \in {"exit", "AttributeError"}) =>
        /\ created \cap disk = {}
        /\ created \cap tempfiles = {}

(***************************************************************************)
(* Properties of the read loop of CNF.solve_maxsat.                        *)
(***************************************************************************)
\* C9: once the loop has read the status line "s UNKNOWN" or
\* "s SATISFIABLE", solve_maxsat has raised SolvingError.
\* Refuted: readline() keeps the line terminator, so line[2:] equals neither.
BadStatusRaisesSolvingError ==
    seen \cap {"UNKNOWN", "SATISFIABLE"} # {} => outcome = "SolvingError"

\* C10: the read loop of solve_maxsat is always left.
\* Refuted: at the end of the output with no solution read, the loop
\* condition stays true and readline() keeps returning the empty string.
MaxsatLoopTerminates ==
    (pc = "ms_loop") ~> (pc # "ms_loop")

(***************************************************************************)
(* The constructor and the writers.                                        *)
(***************************************************************************)
\* the invariants of the data model: as many levels as semirings, at most
\* two; a transform exactly with two semirings; the levels are a partition
\* of 1..nr_vars when semirings are declared; every weight belongs to a
\* variable of a level; all weights have the same length
DataModelInvariant(o) ==
    /\ Len(o.quantified) = Len(o.semirings)
    /\ Len(o.semirings) <= 2
    /\ ~o.transform.none <=> Len(o.semirings) = 2
    /\ Len(o.semirings) > 0 =>
         /\ \A v \in 1..o.nr_vars :
              Cardinality({i \in 1..Len(o.quantified) : v \in Range(o.quantified[i])}) = 1
         /\ \A i \in 1..Len(o.quantified) : Range(o.quantified[i]) \subseteq 1..o.nr_vars
    /\ \A l \in Range(o.keys) : Abs(l) \in 1..o.nr_vars
    /\ Len(o.semirings) = 0 => o.keys = <<>>
    /\ \A k, l \in Range(o.keys) : Len(o.weights[k]) = Len(o.weights[l])

\* the constructor ran on the text that a writer made of the CNF `before`
\* with extras = True
ReadBack ==
    /\ method = "__init__"
    /\ text = to_stream(before, TRUE)

\* C11: round trip: for every CNF that satisfies the invariants of the data
\* model, the constructor accepts the text that to_stream or to_file with
\* extras = True, or str, wrote of it, and the CNF it makes has the same
\* nr_vars, clauses, weights, semirings, quantified levels and transform.
RoundTrip ==
    ReadBack /\ DataModelInvariant(before) => ret.exc = "none" /\ self = before

\* the words of the 'c p <kind> ...' lines of the text, line by line
PropertyLines(kind) ==
    SelectSeq([i \in 1..Len(text) |-> split(text[i])],
              LAMBDA line : /\ Len(line) > 2
                            /\ line[1] = <<"c">> /\ line[2] = <<"p">> /\ line[3] = <<kind>>)

PropertyKinds == {"weight", "semirings", "quantify", "transform"}

\* every property line of the text ends with the word 0
Terminated ==
    \A kind \in PropertyKinds :
        \A i \in 1..Len(PropertyLines(kind)) :
            PropertyLines(kind)[i][Len(PropertyLines(kind)[i])] = <<"0">>

\* the number of semirings the text declares: the words between
\* 'c p semirings' and the 0 of the last such line
DeclaredSemirings ==
    IF PropertyLines("semirings") = <<>> THEN 0
    ELSE Len(PropertyLines("semirings")[Len(PropertyLines("semirings"))]) - 4

\* C12: the constructor fails fatally and makes no CNF of a text (whose
\* property lines all end with 0) when the number of 'c p quantify' lines
\* differs from the number of declared semirings, when more than two
\* semirings are declared, and when two semirings are declared and there is
\* no 'c p transform' line.
MalformedTextIsFatal ==
    /\ method = "__init__"
    /\ Terminated
    /\ \/ Len(PropertyLines("quantify")) # DeclaredSemirings
       \/ DeclaredSemirings > 2
       \/ DeclaredSemirings = 2 /\ PropertyLines("transform") = <<>>
    => ret.exc = "exit" /\ ~parsed /\ self = before

\* C12: a text with two semirings and two levels but no transform was
\* rejected
TwoSemiringsWithoutTransformRejected ==
    /\ method = "__init__"
    /\ Terminated
    /\ DeclaredSemirings = 2
    /\ Len(PropertyLines("quantify")) = 2
    /\ PropertyLines("transform") = <<>>
    /\ ret.exc = "exit"

\* C13: the constructor fails fatally and makes no CNF of a text in which a
\* 'c p weight', 'c p semirings', 'c p quantify' or 'c p transform' line
\* does not end with the word 0; the last word of such a line is not
\* dropped as if it were the 0.
UnterminatedPropertyLineIsFatal ==
    method = "__init__" /\ ~Terminated => ret.exc # "none" /\ ~parsed

\* C14: every CNF the constructor accepts has a transform if and only if it
\* has exactly two semirings.
AcceptedTransformIffTwoSemirings ==
    method = "__init__" /\ ret.exc = "none" =>
        (~self.transform.none <=> Len(self.semirings) = 2)

(***************************************************************************)
(* evaluate_trivial, remove_trivial_clauses and get_weights.               *)
(***************************************************************************)
\* a weight is declared for every literal of the variables 1..nr_vars, and
\* for no other
WeightsTotal(o) == Range(o.keys) = Literals(o.nr_vars)

\* the clause holds a literal together with its negation
Tautological(c) == \E l \in Range(c) : -l \in Range(c)

\* the product in semiring s, for query q, of weight(v) + weight(-v) over
\* the variables vs
RECURSIVE ProductOfSums(_, _, _, _)
ProductOfSums(s, o, q, vs) ==
    IF vs = {} THEN semiring_one(s)
    ELSE LET v == CHOOSE x \in vs : TRUE
         IN  mul(s, add(s, o.weights[v][q], o.weights[-v][q]),
                 ProductOfSums(s, o, q, vs \ {v}))

\* the value of a CNF without clauses, query by query
ValueWithoutClauses(o) ==
    IF Len(o.semirings) = 0 THEN << 2 ^ o.nr_vars >>
    ELSE IF o.nr_vars = 0 THEN << semiring_one(o.semirings[1]) >>
    ELSE IF Len(o.semirings) = 1
    THEN [q \in 1..Len(o.weights[1]) |-> ProductOfSums(o.semirings[1], o, q, 1..o.nr_vars)]
    ELSE [q \in 1..Len(o.weights[1]) |->
            mul(o.semirings[1],
                from_value(o.semirings[1],
                           eval_transform(o.transform, o.semirings[2],
                                          ProductOfSums(o.semirings[2], o, q,
                                                        Range(o.quantified[2])))),
                ProductOfSums(o.semirings[1], o, q, Range(o.quantified[1])))]

\* C15: on a CNF (with a weight for every literal when it has semirings)
\* that has no clause left once the tautological clauses are removed,
\* evaluate_trivial returns, per query, the product over the variables
\* 1..nr_vars of weight(v) + weight(-v): 2^nr_vars without a semiring, one()
\* resp. 1 when nr_vars = 0, and with two semirings the product over the
\* variables of level 1 in semirings[1], passed through the transform into
\* semirings[0] and multiplied by the product over the variables of level 0.
TrivialValueIsProductOfSums ==
    /\ method = "evaluate_trivial"
    /\ DataModelInvariant(before)
    /\ Len(before.semirings) > 0 => WeightsTotal(before)
    /\ \A i \in 1..Len(before.clauses) : Tautological(before.clauses[i])
    => ret = Value(ValueWithoutClauses(before))

\* C15: evaluate_trivial returned the value of a CNF over two semirings
\* with variables on both levels, whose clauses were all tautological
TwoLevelProductReturned ==
    /\ method = "evaluate_trivial"
    /\ Len(before.semirings) = 2
    /\ before.quantified[1] # <<>> /\ before.quantified[2] # <<>>
    /\ before.clauses # <<>>
    /\ ret = Value(ValueWithoutClauses(before))
    /\ ret.value[1] # semiring_one(before.semirings[1])

\* the clauses of o that are not tautological
ProperClauses(o) == SelectSeq(o.clauses, LAMBDA c : ~Tautological(c))

\* zero() of the outer semiring, the integer 0 without a semiring
OuterZero(o) ==
    IF Len(o.semirings) = 0 THEN 0 ELSE semiring_zero(o.semirings[1])

\* C16: on a CNF with zero, one or two semirings whose clauses (the
\* tautological ones removed) are not empty and unsatisfiable,
\* evaluate_trivial returns a vector whose every entry is zero() of
\* semirings[0], the integer 0 without a semiring; it returns None exactly
\* when the clauses are not empty and satisfiable.
UnsatisfiableValueIsZero ==
    /\ method = "evaluate_trivial"
    /\ DataModelInvariant(before)
    /\ Len(before.semirings) > 0 => WeightsTotal(before)
    => /\ ProperClauses(before) # <<>> /\ ~Satisfiable(before.nr_vars, ProperClauses(before))
          => /\ ret.exc = "none" /\ ~ret.none
             /\ Len(ret.value) > 0
             /\ \A q \in 1..Len(ret.value) : ret.value[q] = OuterZero(before)
       /\ ret = ReturnsNone
          <=> ProperClauses(before) # <<>> /\ Satisfiable(before.nr_vars, ProperClauses(before))

\* C17: remove_trivial_clauses leaves exactly the clauses that hold no
\* literal together with its negation, in their order, and changes nothing
\* else of the CNF; a second call changes nothing; a CNF all of whose
\* clauses are tautological is evaluated as the CNF without clauses.
RemovalKeepsProperClauses ==
    method = "remove_trivial_clauses" =>
        /\ self.clauses = ProperClauses(before)
        /\ [self EXCEPT !.clauses = before.clauses] = before
        /\ CNF_remove_trivial_clauses(self) = self
        /\ self.clauses = <<>> =>
             CNF_evaluate_trivial(before)
                 = CNF_evaluate_trivial([before EXCEPT !.clauses = <<>>])

\* C17: a clause whose literal and negated literal are not neighbours was
\* removed, and it was the only clause
NonNeighbourTautologyRemoved ==
    /\ method = "remove_trivial_clauses"
    /\ before.clauses = << <<1, 2, -1>> >>
    /\ self.clauses = <<>>

\* C18: on every CNF the constructor accepted, get_weights returns a flat
\* list of exactly 2 * nr_vars weights in which position 2(v-1) holds the
\* weight of v and position 2(v-1)+1 the weight of -v, for every variable v
\* of 1..nr_vars, with zero() and one() of semirings[0]; without a semiring
\* every entry is 1, zero is 0 and one is 1.
GetWeightsIsFlat ==
    method = "get_weights" /\ parsed =>
        /\ ret.exc = "none"
        /\ Len(ret.weights) = 2 * before.nr_vars
        /\ IF Len(before.semirings) = 0
           THEN /\ \A i \in 1..Len(ret.weights) : ret.weights[i] = <<1>>
                /\ ret.zero = 0 /\ ret.one = 1
           ELSE /\ \A v \in 1..before.nr_vars :
                     /\ v \in Range(before.keys)
                     /\ -v \in Range(before.keys)
                     /\ ret.weights[2 * (v - 1) + 1] = before.weights[v]
                     /\ ret.weights[2 * (v - 1) + 2] = before.weights[-v]
                /\ ret.zero = semiring_zero(before.semirings[1])
                /\ ret.one = semiring_one(before.semirings[1])

(***************************************************************************)
(* write_maxsat_cnf.                                                       *)
(***************************************************************************)
\* write_maxsat_cnf ran on a CNF over one semiring with a weight for every
\* literal
MaxsatWritten ==
    /\ method = "write_maxsat_cnf"
    /\ DataModelInvariant(before)
    /\ Len(before.semirings) = 1
    /\ WeightsTotal(before)

\* the words of the header 'p wcnf <nr_vars> <clauses> <top>'
WcnfHeader == split(text[1])

MaxPlusWeight(l) ==
    to_maxplus(before.semirings[1], value_of(before.semirings[1], before.weights[l][1]))

\* the numbers of the lines of the WCNF after the header whose weight is
\* top, and of those with another weight
HardLines == {i \in 2..Len(text) : split(text[i])[1] = WcnfHeader[5]}

SoftLines == {i \in 2..Len(text) : split(text[i])[1] # WcnfHeader[5]}

\* the soft unit clauses of variable v: lines '<weight> <literal> 0'
SoftLinesOf(v) ==
    {i \in SoftLines : /\ Len(split(text[i])) = 3
                       /\ split(text[i])[2] \in {str_int(v), str_int(-v)}
                       /\ split(text[i])[3] = <<"0">>}

IsPositiveInt(word) == \E w \in 1..TopLimit : word = str_int(w)

PositiveInt(word) == CHOOSE w \in 1..TopLimit : word = str_int(w)

RECURSIVE SumOfSoftWeights(_)
SumOfSoftWeights(lines) ==
    IF lines = {} THEN 0
    ELSE LET i == CHOOSE j \in lines : TRUE
         IN  PositiveInt(split(text[i])[1]) + SumOfSoftWeights(lines \ {i})

\* the hard lines: the clauses of the CNF, and the unit clause -l of every
\* literal l of weight -inf whose negation has another weight
HardLinesExpected ==
    { ints_line(WcnfHeader[5] \o <<BLANK>>, before.clauses[i]) : i \in 1..Len(before.clauses) }
    \cup { ints_line(WcnfHeader[5] \o <<BLANK>>, <<-l>>) :
             l \in {k \in Literals(before.nr_vars) :
                      MaxPlusWeight(k) = NEGINF /\ MaxPlusWeight(-k) # NEGINF} }

\* C20: in the WCNF that write_maxsat_cnf wrote (max-plus weights that are
\* integers or -inf), every variable whose two literals have finite and
\* different weights has exactly one soft unit clause, no variable has more
\* than one, every soft weight is a strictly positive integer, and the sum
\* of the soft weights is strictly below top, the weight of every clause
\* of the CNF and of every forced unit clause of a literal of weight -inf.
OneSoftUnitPerVariable ==
    MaxsatWritten /\ ret.exc = "none" =>
        /\ \A v \in 1..before.nr_vars :
             /\ Cardinality(SoftLinesOf(v)) <= 1
             /\ (/\ MaxPlusWeight(v) # NEGINF
                 /\ MaxPlusWeight(-v) # NEGINF
                 /\ MaxPlusWeight(v) # MaxPlusWeight(-v))
                => Cardinality(SoftLinesOf(v)) = 1
        /\ SoftLines = UNION {SoftLinesOf(v) : v \in 1..before.nr_vars}
        /\ \A i \in SoftLines : IsPositiveInt(split(text[i])[1])
        /\ IsPositiveInt(WcnfHeader[5])
        /\ SumOfSoftWeights(SoftLines) < PositiveInt(WcnfHeader[5])
        /\ {text[i] : i \in HardLines} = HardLinesExpected

\* C20: a WCNF was written with a soft unit clause and a clause of the CNF
SoftUnitAndClauseWritten ==
    /\ MaxsatWritten
    /\ ret.exc = "none"
    /\ before.clauses # <<>>
    /\ SoftLines # {}
    /\ HardLines # {}

\* C20: a WCNF was written with a soft unit clause and the forced unit
\* clause of a literal of weight -inf
SoftUnitAndForcedUnitWritten ==
    /\ MaxsatWritten
    /\ ret.exc = "none"
    /\ SoftLines # {}
    /\ \E l \in Literals(before.nr_vars) :
         /\ MaxPlusWeight(l) = NEGINF
         /\ ints_line(WcnfHeader[5] \o <<BLANK>>, <<-l>>) \in {text[i] : i \in HardLines}


(***************************************************************************)
(* C26..C30: the header of the WCNF, the order of writing and starting in  *)
(* solve_maxsat, the signal handler, and the error of solve_wmc.           *)
(***************************************************************************)
\* the clause lines of the written WCNF: every line after the header
WcnfClauseLines == 2..Len(text)

\* C26: in every WCNF that write_maxsat_cnf wrote, the clause count of the
\* 'p wcnf' header equals the number of clause lines that follow the header
\* (clauses of the CNF, forced unit clauses of the literals of weight -inf,
\* soft unit clauses).
WcnfHeaderCountsClauseLines ==
    method = "write_maxsat_cnf" /\ ret.exc = "none" =>
        WcnfHeader[4] = str_int(Cardinality(WcnfClauseLines))

\* the backends that solve_maxsat starts on the file cnf_tmp
MaxsatBackends == {"minisat", "uwrmaxsat"}

\* C27: in both branches of solve_maxsat the input file of the backend is
\* written and closed before the backend is started: no backend of
\* solve_maxsat runs while the content of its input file is still in the
\* buffer of the writer.
InputClosedBeforeBackendStarts ==
    \A c \in children :
        c[2] \in MaxsatBackends => <<c[1], "cnf">> \notin buffered

\* C29: when a signal is delivered between any two steps of an evaluation,
\* then once the handler has run no temp file that the evaluation created
\* is left on disk and no child process that it started is alive.
HandlerLeavesNothingBehind ==
    [][handler => /\ created \cap disk' = {}
                  /\ \A c \in children' : c[1] # evalno]_vars

\* C30: when the exact weighted counter has exited without printing a line
\* that starts with 'c s exact arb float ', solve_wmc raises SolvingError
\* and returns no value.
NoSolutionLineRaisesSolvingError ==
    [][solve_wmc_read /\ pc' # "wmc_rm" =>
          /\ outcome' = "SolvingError"
          /\ returned' = "none"]_vars

(***************************************************************************)
(* C21, C28: the value solve_maxsat returns against the value of the CNF.  *)
(***************************************************************************)
\* the models of the clauses of the CNF
ModelsOf(o) ==
    { sol \in Assignments(o.nr_vars) :
        \A i \in 1..Len(o.clauses) : SatisfiedBy(sol, o.clauses[i]) }

\* the product, in the semiring and for query q, of the weights of the
\* literals of an assignment
RECURSIVE WeightOfModel(_, _, _, _)
WeightOfModel(o, q, sol, i) ==
    IF i > Len(sol) THEN semiring_one(o.semirings[1])
    ELSE mul(o.semirings[1], o.weights[sol[i]][q], WeightOfModel(o, q, sol, i + 1))

\* the sum, in the semiring and for query q, of the weights of a set of models
RECURSIVE SumOfModels(_, _, _)
SumOfModels(o, q, models) ==
    IF models = {} THEN semiring_zero(o.semirings[1])
    ELSE LET sol == CHOOSE m \in models : TRUE
         IN  add(o.semirings[1], WeightOfModel(o, q, sol, 1),
                 SumOfModels(o, q, models \ {sol}))

\* the value of the CNF, which the compilation path computes: for every
\* query the sum over the models of the product of their literal weights
ValueOfCNF(o) ==
    [q \in 1..Len(o.weights[1]) |-> SumOfModels(o, q, ModelsOf(o))]

\* solve_maxsat returned a value that it made of the assignment which the
\* MaxSAT backend printed for the WCNF of a CNF over one semiring with a
\* weight for every literal
MaxsatSolved ==
    /\ method = "solve_maxsat"
    /\ ret.exc = "none"
    /\ text # <<>>
    /\ DataModelInvariant(before)
    /\ Len(before.semirings) = 1
    /\ WeightsTotal(before)

\* C21: for a CNF with one query over min-plus or max-plus whose weights
\* are integers or the zero of the semiring, every assignment that
\* satisfies the hard clauses of the written WCNF and maximises the weight
\* of the satisfied soft clauses is an optimal model of the CNF: the value
\* solve_maxsat makes of it equals the value of the CNF.
MaxsatValueIsOptimum ==
    /\ MaxsatSolved
    /\ before.semirings[1] \in {"minplus", "maxplus"}
    /\ Len(before.weights[1]) = 1
    => ret.value = ValueOfCNF(before)

\* C21: solve_maxsat returned the value of a CNF one of whose variables
\* has a literal of weight zero(), whose negation is a forced unit clause
\* of the WCNF, while another has a soft unit clause; the value is neither
\* one() nor zero()
MaxsatOptimumWithForcedUnit ==
    /\ MaxsatSolved
    /\ before.semirings[1] = "minplus"
    /\ Len(before.weights[1]) = 1
    /\ SoftLines # {}
    /\ \E l \in Literals(before.nr_vars) :
         /\ MaxPlusWeight(l) = NEGINF
         /\ ints_line(WcnfHeader[5] \o <<BLANK>>, <<-l>>) \in {text[i] : i \in HardLines}
    /\ ret.value[1] \notin {semiring_one("minplus"), semiring_zero("minplus")}

\* C21: the same for a CNF whose clauses exclude an assignment
MaxsatOptimumWithClauses ==
    /\ MaxsatSolved
    /\ before.semirings[1] = "minplus"
    /\ Len(before.weights[1]) = 1
    /\ SoftLines # {}
    /\ ModelsOf(before) # Assignments(before.nr_vars)
    /\ ret.value[1] \notin {semiring_one("minplus"), semiring_zero("minplus")}

\* C28: for a CNF over one idempotent semiring whose weights have several
\* queries, the vector solve_maxsat returns (the MaxSAT backend being
\* exact) holds at every position i the optimum of query i: the maximum
\* over the models of the product of the i-th weights of their literals.
MaxsatVectorHoldsEveryOptimum ==
    /\ MaxsatSolved
    /\ is_idempotent(before.semirings[1])
    /\ Len(before.weights[1]) > 1
    => \A q \in 1..Len(before.weights[1]) : ret.value[q] = ValueOfCNF(before)[q]

(***************************************************************************)
(* C22..C25: the tree decomposition.                                       *)
(***************************************************************************)
\* the nodes of the tree at distance k or less from the root
RECURSIVE Within(_, _)
Within(t, k) ==
    IF k = 0 THEN {t.root}
    ELSE Within(t, k - 1) \cup UNION {Range(t.adj[x]) : x \in Within(t, k - 1)}

\* the distance of node b from the root
Depth(t, b) ==
    CHOOSE k \in 0..t.bags : b \in Within(t, k) /\ (k = 0 \/ b \notin Within(t, k - 1))

\* the neighbours of node b other than its parent on the path to the root
ChildNodes(t, b) == {x \in Range(t.adj[b]) : Depth(t, x) > Depth(t, b)}

\* the descendants of node b, b included
RECURSIVE Subtree(_, _)
Subtree(t, b) == {b} \cup UNION {Subtree(t, x) : x \in ChildNodes(t, b)}

\* the nodes of the Bag objects in the children list of the bag of node b
ChildrenRelation(t, b) ==
    [i \in 1..Len(t.node[b].children) |-> t.node[b].children[i][1]]

\* the last call was set_root, or the constructor with a root
RootWasSet ==
    /\ td.made
    /\ tdcall.method \in {"set_root", "__init__"}
    /\ tdcall.root # None

\* C22: after set_root(r), on the first call as on every later one, the
\* root is r and, for every node b, the attribute "bag" is a Bag object
\* whose children list holds exactly the current Bag objects of the
\* neighbours of b other than its parent on the path to r, each once, and
\* whose vertices are the set the node had before, unchanged; a call with
\* the root the decomposition already has leaves the children relation as
\* it was.
SetRootLinksCurrentBags ==
    RootWasSet =>
        /\ td.root = tdcall.root
        /\ \A b \in 1..td.bags :
             /\ td.bag[b][2] > 0
             /\ td.node[b].idx = b
             /\ Len(td.node[b].children) = Cardinality(ChildNodes(td, b))
             /\ Range(td.node[b].children) = {td.bag[x] : x \in ChildNodes(td, b)}
             /\ td.node[b].vertices = RawSet(b)
             /\ td.sets[b] = tdcall.before.sets[b]
        /\ tdcall.before.root = td.root =>
             \A b \in 1..td.bags : ChildrenRelation(td, b) = ChildrenRelation(tdcall.before, b)

\* C22: a decomposition of three bags that was rooted at another node was
\* re-rooted at a leaf, so that the parent of the old root changed
ReRootedAtLeaf ==
    /\ RootWasSet
    /\ tdcall.method = "set_root"
    /\ td.bags = 3
    /\ tdcall.before.root \notin {None, td.root}
    /\ Len(td.adj[td.root]) = 1
    /\ Len(td.adj[tdcall.before.root]) = 2

\* C22: the first call of set_root, on raw vertex sets, for three bags
FirstRootSet ==
    /\ RootWasSet
    /\ td.bags = 3
    /\ tdcall.before.root = None
    /\ tdcall.before.gen = 0

\* C22: set_root was called with the root the decomposition had
SameRootSetAgain ==
    /\ RootWasSet
    /\ td.bags = 3
    /\ tdcall.before.root = td.root

\* the position of a Bag object in a sequence of yielded bags
PositionsOf(ys, bag_ref) == {i \in 1..Len(ys) : ys[i] = bag_ref}

\* bag_iter ran to its end in one of the two orders
Iterated(order) ==
    /\ td.made
    /\ tdcall.method = "bag_iter"
    /\ tdcall.order = order

\* C23: whatever calls of set_root came before, bag_iter("post-order")
\* yields the Bag object of every node exactly once and every bag only
\* after all the bags of its children list, and bag_iter("pre-order")
\* yields the Bag object of every node exactly once and every bag before
\* all the bags of its children list; so every iteration visits the same
\* bags, one per node.
BagIterVisitsEachBagOnceInOrder ==
    \A order \in {"post-order", "pre-order"} :
        Iterated(order) =>
            LET ys == tdcall.ret.yielded
            IN  /\ tdcall.ret.exc = "none"
                /\ \A b \in 1..td.bags : Cardinality(PositionsOf(ys, td.bag[b])) = 1
                /\ Len(ys) = td.bags
                /\ \A i \in 1..Len(ys) :
                     \A c \in Range(td.node[ys[i][1]].children) :
                         \A j \in PositionsOf(ys, c) :
                             IF order = "post-order" THEN j < i ELSE i < j

\* C23: a decomposition of three bags was iterated in pre-order after it
\* had been re-rooted at a node with two children
PreOrderAfterReRooting ==
    /\ Iterated("pre-order")
    /\ td.bags = 3
    /\ td.gen = 2
    /\ td.root # 1
    /\ Len(td.node[td.root].children) = 2

\* C23: a path of three bags was iterated in post-order from a leaf
PostOrderOfPath ==
    /\ Iterated("post-order")
    /\ td.bags = 3
    /\ td.gen = 2
    /\ Len(td.node[td.root].children) = 1

\* the fields bags, vertices and width agree with the bags of the tree
ValidDecomposition(t) ==
    /\ t.bags = Len(t.adj)
    /\ t.vertices = Cardinality(UNION {t.sets[b] : b \in 1..t.bags})
    /\ t.width = Maximum({Cardinality(t.sets[b]) : b \in 1..t.bags}) - 1

\* the weight of the bag of node b: its vertices that are not in the bag
\* of its parent, all of its vertices for the root
BagWeight(t, b) ==
    IF b = t.root THEN Cardinality(t.sets[b])
    ELSE LET up == CHOOSE x \in Range(t.adj[b]) : Depth(t, x) < Depth(t, b)
         IN  Cardinality(t.sets[b] \ t.sets[up])

RECURSIVE SumOfWeights(_, _)
SumOfWeights(t, nodes) ==
    IF nodes = {} THEN 0
    ELSE LET b == CHOOSE x \in nodes : TRUE
         IN  BagWeight(t, b) + SumOfWeights(t, nodes \ {b})

\* the weight of the bag of b and of all its descendants exceeds
\* vertex_count / 2
Heavy(t, b) == 2 * SumOfWeights(t, Subtree(t, b)) > t.vertices

\* the first node in post-order whose subtree is heavy
FirstHeavy(t) ==
    LET post == iter(t)
        i == CHOOSE k \in 1..Len(post) :
               Heavy(t, post[k]) /\ \A j \in 1..(k - 1) : ~Heavy(t, post[j])
    IN  post[i]

\* find_centroid ran on a valid decomposition with a vertex
CentroidSought ==
    /\ td.made
    /\ tdcall.method = "find_centroid"
    /\ ValidDecomposition(td)
    /\ td.vertices > 0

\* C24: on every valid rooted tree decomposition find_centroid returns a
\* bag, namely the first bag in post-order for which the weight of the bag
\* and of all its descendants exceeds vertex_count / 2, the weight of a bag
\* being the number of its vertices that are not in the bag of its parent
\* (all of its vertices for the root).  The bag is returned as the id of
\* its node.
CentroidIsFirstHeavyBag ==
    CentroidSought =>
        /\ tdcall.ret.exc = "none"
        /\ tdcall.ret.value = FirstHeavy(td)

\* remove ran last
Removed ==
    /\ td.made
    /\ tdcall.method = "remove"

\* C25: in every state that the constructor on a valid decomposition and
\* any calls of set_root and remove lead to, the field width is the size
\* of the largest bag minus one; and remove(S) deletes exactly the vertices
\* of S from every bag and leaves the edges of the tree, the root and the
\* children relation as they were.
WidthIsLargestBagMinusOne ==
    /\ td.made =>
         td.width = Maximum({Cardinality(vertices_of(td, b)) : b \in 1..td.bags}) - 1
    /\ Removed =>
         LET was == rooted(tdcall.before)
         IN  /\ \A b \in 1..td.bags : td.sets[b] = was.sets[b] \ tdcall.vertices
             /\ td.adj = was.adj
             /\ td.root = was.root
             /\ \A b \in 1..td.bags : ChildrenRelation(td, b) = ChildrenRelation(was, b)

====
